---- MODULE Spec2Model ----
(***************************************************************************)
(* Model of the geospatial metadata helpers of zarr-cloud-native-format:   *)
(* the CRS resolvers (extract_crs, crs_from_stac_asset), the grid geometry *)
(* reconstruction (affine_from_stac_asset) and the extent aggregation      *)
(* (get_spatial_extent, get_temporal_extent).                              *)
(*                                                                         *)
(* The helpers are pure Python functions.  The state of the model is the   *)
(* last call made: the function called, its argument and what the call     *)
(* produced (a returned value or a raised exception).  Every action draws  *)
(* an argument from a bounded set and applies one function to it; a        *)
(* behaviour is one call, made from the initial state.                     *)
(*                                                                         *)
(* The commands (to_zarr, to_stac) write files while they run.  A run of   *)
(* a command is the process proc: its input, its position pc in the        *)
(* command, its local variables; disk is the set of the files written.     *)
(***************************************************************************)
EXTENDS Integers, Sequences, FiniteSets, TLC

VARIABLES call, args, ret, proc, disk

vars == <<call, args, ret, proc, disk>>

(***************************************************************************)
(* Python values.  A value is a record tagged with its Python type, so     *)
(* that values of different types can be compared.                         *)
(***************************************************************************)
PyNone == [t |-> "None"]

PyInt(n) == [t |-> "int", i |-> n]

\* a str is the sequence of its characters
PyStr(chars) == [t |-> "str", s |-> chars]

\* a list or tuple
PyList(elems) == [t |-> "list", l |-> elems]

\* bool(v): None, 0, "" and [] are falsy
Truthy(v) ==
    CASE v.t = "None" -> FALSE
      [] v.t = "int"  -> v.i # 0
      [] v.t = "str"  -> v.s # <<>>
      [] v.t = "list" -> v.l # <<>>
      [] OTHER        -> TRUE

\* the outcome of a call
Return(v) == [kind |-> "return", val |-> v]

Raise(exc, msg) == [kind |-> "raise", exc |-> exc, msg |-> msg]

\* dict.get(key): the value, or None when the key is absent
dict_get(d, key) == IF key \in DOMAIN d THEN d[key] ELSE PyNone

(***************************************************************************)
(* str methods, character by character.                                    *)
(***************************************************************************)
LowerLetters ==
    <<"a", "b", "c", "d", "e", "f", "g", "h", "i", "j", "k", "l", "m",
      "n", "o", "p", "q", "r", "s", "t", "u", "v", "w", "x", "y", "z">>

UpperLetters ==
    <<"A", "B", "C", "D", "E", "F", "G", "H", "I", "J", "K", "L", "M",
      "N", "O", "P", "Q", "R", "S", "T", "U", "V", "W", "X", "Y", "Z">>

Digits == <<"0", "1", "2", "3", "4", "5", "6", "7", "8", "9">>

UpperChar(c) ==
    IF \E k \in DOMAIN LowerLetters : LowerLetters[k] = c
    THEN UpperLetters[CHOOSE k \in DOMAIN LowerLetters : LowerLetters[k] = c]
    ELSE c

LowerChar(c) ==
    IF \E k \in DOMAIN UpperLetters : UpperLetters[k] = c
    THEN LowerLetters[CHOOSE k \in DOMAIN UpperLetters : UpperLetters[k] = c]
    ELSE c

\* str.upper()
str_upper(s) == [k \in DOMAIN s |-> UpperChar(s[k])]

\* str.lower()
str_lower(s) == [k \in DOMAIN s |-> LowerChar(s[k])]

\* str.startswith(prefix)
str_startswith(s, prefix) ==
    /\ Len(prefix) <= Len(s)
    /\ SubSeq(s, 1, Len(prefix)) = prefix

RECURSIVE NatDigits(_)
\* the decimal digits of a natural number, most significant first
NatDigits(n) ==
    IF n < 10 THEN <<Digits[n + 1]>>
    ELSE Append(NatDigits(n \div 10), Digits[(n % 10) + 1])

\* format(v) inside an f-string: str(v)
str_format(v) ==
    CASE v.t = "int" -> IF v.i < 0 THEN <<"-">> \o NatDigits(-v.i) ELSE NatDigits(v.i)
      [] v.t = "str" -> v.s
      [] OTHER       -> <<"N", "o", "n", "e">>

(***************************************************************************)
(* CRS resolution.                                                         *)
(***************************************************************************)
MsgCrsNotFound == "CRS not found in item properties"

MsgMissingProjCode == "Asset is missing proj:code"

\* extract_crs with a case-sensitive prefix test (code.startswith("EPSG:"))
extract_crs_CaseSensitive(properties) ==
    LET epsg == dict_get(properties, "proj:epsg") IN
    IF Truthy(epsg)
    THEN Return(PyStr(<<"e", "p", "s", "g", ":">> \o str_format(epsg)))
    ELSE LET code == dict_get(properties, "proj:code") IN
         IF Truthy(code) /\ str_startswith(code.s, <<"E", "P", "S", "G", ":">>)
         THEN Return(PyStr(str_lower(code.s)))
         ELSE Raise("ValueError", MsgCrsNotFound)

\* extract_crs(item), applied to item.properties
extract_crs(properties) ==
    LET epsg == dict_get(properties, "proj:epsg") IN
    IF Truthy(epsg)
    THEN Return(PyStr(<<"e", "p", "s", "g", ":">> \o str_format(epsg)))
    ELSE LET code == dict_get(properties, "proj:code") IN
         IF Truthy(code)
            /\ str_startswith(str_upper(code.s), <<"E", "P", "S", "G", ":">>)
         THEN Return(PyStr(str_lower(code.s)))
         ELSE Raise("ValueError", MsgCrsNotFound)

\* the position of the first ":" of s, 0 when there is none
ColonAt(s) ==
    IF \E k \in DOMAIN s : s[k] = ":"
    THEN CHOOSE k \in DOMAIN s : s[k] = ":" /\ \A j \in 1..(k - 1) : s[j] # ":"
    ELSE 0

\* the authorities of the PROJ database that the modelled inputs name
KnownAuthorities ==
    { <<"E", "P", "S", "G">>, <<"E", "S", "R", "I">>, <<"O", "G", "C">> }

\* pyproj's CRS.from_user_input on a str: "<authority>:<code>" of a known
\* authority gives a CRS object, anything else raises CRSError
CRS_from_user_input(value) ==
    LET k == ColonAt(value.s)
        auth == str_upper(SubSeq(value.s, 1, k - 1))
        code == SubSeq(value.s, k + 1, Len(value.s))
    IN  IF k > 0 /\ auth \in KnownAuthorities /\ code # <<>>
        THEN Return([t |-> "CRS", auth |-> auth, code |-> str_upper(code)])
        ELSE Raise("CRSError", "Invalid projection")

\* crs_from_stac_asset(asset), applied to asset.extra_fields
crs_from_stac_asset(extra_fields) ==
    LET epsg == dict_get(extra_fields, "proj:code") IN
    IF ~Truthy(epsg)
    THEN Raise("ValueError", MsgMissingProjCode)
    ELSE CRS_from_user_input(epsg)

\* the CRS a returned value identifies: <<authority, code>> in canonical form
CrsIdOf(v) ==
    IF v.t = "CRS" THEN <<v.auth, v.code>>
    ELSE LET k == ColonAt(v.s) IN
         <<str_upper(SubSeq(v.s, 1, k - 1)), str_upper(SubSeq(v.s, k + 1, Len(v.s)))>>

(***************************************************************************)
(* The inputs of the CRS resolvers: mappings over the two CRS fields.      *)
(***************************************************************************)
Absent == [t |-> "absent"]

\* the values of the legacy field proj:epsg: missing, null, 0 or a code
LegacyValues ==
    { Absent, PyNone, PyInt(0), PyInt(4326), PyInt(32633), PyInt(3857) }

ModernStrings ==
    { <<>>,
      <<"E", "P", "S", "G", ":", "4", "3", "2", "6">>,
      <<"e", "p", "s", "g", ":", "4", "3", "2", "6">>,
      <<"E", "p", "s", "g", ":", "3", "2", "6", "3", "3">>,
      <<"e", "P", "s", "G", ":", "3", "8", "5", "7">>,
      <<"E", "S", "R", "I", ":", "5", "4", "0", "0", "9">>,
      <<"e", "s", "r", "i", ":", "5", "4", "0", "0", "9">>,
      <<"O", "G", "C", ":", "C", "R", "S", "8", "4">>,
      <<"E", "P", "S", "G">>,
      <<"E", "P", "S", "G", "4", "3", "2", "6">>,
      <<"X", "E", "P", "S", "G", ":", "4", "3", "2", "6">> }

\* the values of the modern field proj:code: missing, null or a string
ModernValues == { Absent, PyNone } \cup { PyStr(s) : s \in ModernStrings }

CrsKeys == { "proj:epsg", "proj:code" }

MkFields(e, c) ==
    LET v(k) == IF k = "proj:epsg" THEN e ELSE c IN
    [k \in { x \in CrsKeys : v(x) # Absent } |-> v(k)]

FieldMappings == { MkFields(e, c) : e \in LegacyValues, c \in ModernValues }

(***************************************************************************)
(* Python floats: IEEE-754 binary64, round to nearest, ties to even.       *)
(* A float is [sign, m, e]: m is the significand as a sequence of          *)
(* Precision bits, most significant first and starting with 1, and the     *)
(* value is (-1)^sign * m * 2^e.  Zero has the empty significand.  The     *)
(* modelled magnitudes stay far from overflow and from subnormals.         *)
(***************************************************************************)
Precision == 53

RECURSIVE NatBits(_)
\* the bits of a natural number, most significant first; <<>> for 0
NatBits(n) == IF n = 0 THEN <<>> ELSE Append(NatBits(n \div 2), n % 2)

Zeros(n) == [k \in 1..n |-> 0]

\* b without its leading zeros
StripZeros(b) ==
    IF \A k \in DOMAIN b : b[k] = 0 THEN <<>>
    ELSE SubSeq(b, CHOOSE k \in DOMAIN b : b[k] = 1 /\ \A j \in 1..(k - 1) : b[j] = 0,
                Len(b))

\* b with leading zeros, n bits long
PadTo(b, n) == Zeros(n - Len(b)) \o b

Max(x, y) == IF x < y THEN y ELSE x

Abs(n) == IF n < 0 THEN -n ELSE n

(* The carry chains below split their operand in two halves, the low half   *)
(* first, so that the depth of the recursion is logarithmic in the length. *)
\* the high half's result in front of the low half's bits
JoinChain(high, lowbits) == [bits |-> high.bits \o lowbits, carry |-> high.carry]

RECURSIVE AddChain(_, _, _)
\* a + b + carry for bit sequences of one length: the sum bits and the carry out
AddChain(a, b, carry) ==
    IF Len(a) = 0 THEN [bits |-> <<>>, carry |-> carry]
    ELSE IF Len(a) = 1
    THEN LET v == a[1] + b[1] + carry IN [bits |-> <<v % 2>>, carry |-> v \div 2]
    ELSE LET h  == Len(a) \div 2
             lo == AddChain(SubSeq(a, h + 1, Len(a)), SubSeq(b, h + 1, Len(b)), carry)
         IN  IF lo.carry = 0
             THEN JoinChain(AddChain(SubSeq(a, 1, h), SubSeq(b, 1, h), 0), lo.bits)
             ELSE JoinChain(AddChain(SubSeq(a, 1, h), SubSeq(b, 1, h), 1), lo.bits)

RECURSIVE SubChain(_, _, _)
\* a - b - borrow for bit sequences of one length: the difference bits
\* (modulo 2^Len) and the borrow out, which is 1 exactly when a < b + borrow
SubChain(a, b, borrow) ==
    IF Len(a) = 0 THEN [bits |-> <<>>, carry |-> borrow]
    ELSE IF Len(a) = 1
    THEN LET v == a[1] - b[1] - borrow IN
         [bits |-> <<IF v < 0 THEN v + 2 ELSE v>>, carry |-> IF v < 0 THEN 1 ELSE 0]
    ELSE LET h  == Len(a) \div 2
             lo == SubChain(SubSeq(a, h + 1, Len(a)), SubSeq(b, h + 1, Len(b)), borrow)
         IN  IF lo.carry = 0
             THEN JoinChain(SubChain(SubSeq(a, 1, h), SubSeq(b, 1, h), 0), lo.bits)
             ELSE JoinChain(SubChain(SubSeq(a, 1, h), SubSeq(b, 1, h), 1), lo.bits)

RECURSIVE MulChain(_, _, _)
\* a * c + carry for a bit sequence a and a small natural number c
MulChain(a, c, carry) ==
    IF Len(a) = 0 THEN [bits |-> <<>>, carry |-> carry]
    ELSE IF Len(a) = 1
    THEN LET v == a[1] * c + carry IN [bits |-> <<v % 2>>, carry |-> v \div 2]
    ELSE LET h  == Len(a) \div 2
             lo == MulChain(SubSeq(a, h + 1, Len(a)), c, carry)
         IN  IF lo.carry = 0
             THEN JoinChain(MulChain(SubSeq(a, 1, h), c, 0), lo.bits)
             ELSE JoinChain(MulChain(SubSeq(a, 1, h), c, lo.carry), lo.bits)

RECURSIVE DivChain(_, _, _)
\* the first n bits of the binary fraction r / d (0 <= r < d), and the rest
DivChain(r, d, n) ==
    IF n = 0 THEN [bits |-> <<>>, r |-> r]
    ELSE IF n = 1
    THEN LET b == IF 2 * r >= d THEN 1 ELSE 0 IN [bits |-> <<b>>, r |-> 2 * r - b * d]
    ELSE LET h  == n \div 2
             hi == DivChain(r, d, h)
             lo == DivChain(hi.r, d, n - h)
         IN  [bits |-> hi.bits \o lo.bits, r |-> lo.r]

RECURSIVE LeadingZeros(_, _)
\* the number of zeros that open the binary fraction r / d (0 < r < d)
LeadingZeros(r, d) == IF 2 * r >= d THEN 0 ELSE 1 + LeadingZeros(2 * r, d)

FloatZero(sign) == [sign |-> sign, m |-> <<>>, e |-> 0]

\* The float nearest to (-1)^sign * (bits * 2^e + a positive rest below
\* 2^e when sticky), ties to even.
RoundToFloat(sign, bits, e, sticky) ==
    LET b == StripZeros(bits)
        n == Len(b)
    IN  IF n = 0 THEN FloatZero(sign)
        ELSE IF n <= Precision
        THEN [sign |-> sign, m |-> b \o Zeros(Precision - n), e |-> e - (Precision - n)]
        ELSE LET keep  == SubSeq(b, 1, Precision)
                 guard == b[Precision + 1]
                 rest  == sticky \/ \E k \in (Precision + 2)..n : b[k] = 1
                 up    == guard = 1 /\ (rest \/ keep[Precision] = 1)
                 inc   == AddChain(keep, Zeros(Precision), 1)
                 e1    == e + (n - Precision)
             IN  IF ~up THEN [sign |-> sign, m |-> keep, e |-> e1]
                 ELSE IF inc.carry = 0
                 THEN [sign |-> sign, m |-> inc.bits, e |-> e1]
                 ELSE [sign |-> sign, m |-> <<1>> \o Zeros(Precision - 1), e |-> e1 + 1]

\* float(n) for an int n (exact below 2^53)
float_of_int(n) == RoundToFloat(IF n < 0 THEN 1 ELSE 0, NatBits(Abs(n)), 0, FALSE)

\* n / d for ints n and d # 0: the correctly rounded quotient
float_div(n, d) ==
    LET sign == IF (n < 0) # (d < 0) THEN 1 ELSE 0
        int  == NatBits(Abs(n) \div Abs(d))
        r    == Abs(n) % Abs(d)
        z    == IF int = <<>> /\ r # 0 THEN LeadingZeros(r, Abs(d)) ELSE 0
        k    == z + (Precision + 1 - Len(int))
        frac == DivChain(r, Abs(d), k)
    IN  IF n = 0 THEN FloatZero(sign)
        ELSE RoundToFloat(sign, int \o frac.bits, -k, frac.r # 0)

\* -x
float_neg(x) == [x EXCEPT !.sign = 1 - x.sign]

\* n * x for an int n and a float x
float_mul_int(n, x) ==
    LET sign == IF (n < 0) # (x.sign = 1) THEN 1 ELSE 0
        p    == MulChain(x.m, Abs(n), 0)
    IN  IF n = 0 \/ x.m = <<>> THEN FloatZero(sign)
        ELSE RoundToFloat(sign, NatBits(p.carry) \o p.bits, x.e, FALSE)

\* x + y
float_add(x, y) ==
    IF x.m = <<>>
    THEN (IF y.m = <<>> THEN FloatZero(IF x.sign = 1 /\ y.sign = 1 THEN 1 ELSE 0) ELSE y)
    ELSE IF y.m = <<>> THEN x
    ELSE LET e  == IF x.e < y.e THEN x.e ELSE y.e
             n  == Max(Len(x.m) + (x.e - e), Len(y.m) + (y.e - e))
             xb == PadTo(x.m \o Zeros(x.e - e), n)
             yb == PadTo(y.m \o Zeros(y.e - e), n)
             sum == AddChain(xb, yb, 0)
             xy  == SubChain(xb, yb, 0)
             yx  == SubChain(yb, xb, 0)
         IN  IF x.sign = y.sign
             THEN RoundToFloat(x.sign, <<sum.carry>> \o sum.bits, e, FALSE)
             ELSE IF xb = yb THEN FloatZero(0)
             ELSE IF xy.carry = 1
             THEN RoundToFloat(y.sign, yx.bits, e, FALSE)
             ELSE RoundToFloat(x.sign, xy.bits, e, FALSE)

\* x == y on floats: 0.0 == -0.0
float_eq(x, y) == IF x.m = <<>> THEN y.m = <<>> ELSE x = y

(***************************************************************************)
(* Grid geometry reconstruction.                                           *)
(***************************************************************************)
Affine(a, b, c, d, e, f) ==
    [t |-> "Affine", a |-> a, b |-> b, c |-> c, d |-> d, e |-> e, f |-> f]

\* the body of affine_from_stac_asset reading the shape as (width, height)
affine_north_up_SwappedShape(bbox, shape) ==
    LET width  == shape[1]
        height == shape[2]
    IN  IF width = 0 \/ height = 0
        THEN Raise("ZeroDivisionError", "division by zero")
        ELSE Return(Affine(float_div(bbox[3] - bbox[1], width), FloatZero(0),
                           float_of_int(bbox[1]), FloatZero(0),
                           float_neg(float_div(bbox[4] - bbox[2], height)),
                           float_of_int(bbox[4])))

\* the body of affine_from_stac_asset without the sign of the y resolution
affine_north_up_PositiveYRes(bbox, shape) ==
    LET height == shape[1]
        width  == shape[2]
    IN  IF width = 0 \/ height = 0
        THEN Raise("ZeroDivisionError", "division by zero")
        ELSE Return(Affine(float_div(bbox[3] - bbox[1], width), FloatZero(0),
                           float_of_int(bbox[1]), FloatZero(0),
                           float_div(bbox[4] - bbox[2], height),
                           float_of_int(bbox[4])))

\* the body of affine_from_stac_asset with the resolution of an empty axis
\* set to 0.0
affine_north_up_Guarded(bbox, shape) ==
    LET height == shape[1]
        width  == shape[2]
        xres   == IF width = 0 THEN FloatZero(0) ELSE float_div(bbox[3] - bbox[1], width)
        yres   == IF height = 0 THEN FloatZero(0) ELSE float_div(bbox[4] - bbox[2], height)
    IN  Return(Affine(xres, FloatZero(0), float_of_int(bbox[1]),
                      FloatZero(0), float_neg(yres), float_of_int(bbox[4])))

\* the body of affine_from_stac_asset with its origin at the lower-left
\* corner (xmin, ymin)
affine_north_up_LowerLeft(bbox, shape) ==
    LET height == shape[1]
        width  == shape[2]
    IN  IF width = 0 \/ height = 0
        THEN Raise("ZeroDivisionError", "division by zero")
        ELSE Return(Affine(float_div(bbox[3] - bbox[1], width), FloatZero(0),
                           float_of_int(bbox[1]), FloatZero(0),
                           float_neg(float_div(bbox[4] - bbox[2], height)),
                           float_of_int(bbox[2])))

\* the body of affine_from_stac_asset, from the bbox and the shape read:
\* xres, then yres, then the north-up affine with its origin upper-left
affine_north_up(bbox, shape) ==
    LET xmin   == bbox[1]
        ymin   == bbox[2]
        xmax   == bbox[3]
        ymax   == bbox[4]
        height == shape[1]
        width  == shape[2]
    IN  IF width = 0 THEN Raise("ZeroDivisionError", "division by zero")
        ELSE IF height = 0 THEN Raise("ZeroDivisionError", "division by zero")
        ELSE Return(Affine(float_div(xmax - xmin, width), FloatZero(0),
                           float_of_int(xmin), FloatZero(0),
                           float_neg(float_div(ymax - ymin, height)),
                           float_of_int(ymax)))

\* affine_from_stac_asset(asset), applied to asset.extra_fields
affine_from_stac_asset(extra_fields) ==
    IF "proj:bbox" \notin DOMAIN extra_fields
    THEN Raise("KeyError", "proj:bbox")
    ELSE IF "proj:shape" \notin DOMAIN extra_fields
    THEN Raise("KeyError", "proj:shape")
    ELSE affine_north_up(extra_fields["proj:bbox"].l, extra_fields["proj:shape"].l)

\* The affine applied to the pixel (col, row), as the GridGeometry invariant
\* gives it, in float arithmetic: x = col*a + row*b + c, y = col*d + row*e + f.
affine_apply(A, col, row) ==
    [x |-> float_add(float_add(float_mul_int(col, A.a), float_mul_int(row, A.b)), A.c),
     y |-> float_add(float_add(float_mul_int(col, A.d), float_mul_int(row, A.e)), A.f)]

(***************************************************************************)
(* The inputs of the reconstruction: the projection fields of an asset.    *)
(***************************************************************************)
MaxDim == 3

XCoords == { -7, 0, 1, 100 }

YCoords == { -1, 0, 50 }

RowsValues == (0..MaxDim) \cup { 11, 50 }

ColsValues == (0..MaxDim) \cup { 25, 100 }

BBoxes ==
    { <<xmin, ymin, xmax, ymax>> :
        xmin \in XCoords, ymin \in YCoords, xmax \in XCoords, ymax \in YCoords }

Shapes == { <<rows, cols>> : rows \in RowsValues, cols \in ColsValues }

ProjFields ==
    { ("proj:bbox" :> PyList(bbox)) @@ ("proj:shape" :> PyList(shape)) :
        bbox \in BBoxes, shape \in Shapes }
    \cup { "proj:bbox" :> PyList(<<0, 0, 100, 50>>),
           "proj:shape" :> PyList(<<50, 100>>) }

(***************************************************************************)
(* Extent aggregation.  An item is [bbox, datetime]: bbox is None or a     *)
(* list of four numbers, datetime is None or an instant (an int).          *)
(***************************************************************************)
MsgNoDatetime == "No datetime found in item properties"

MsgNoBbox == "No bbox found in item properties"

MsgNotComparable == "'<' not supported between instances"

MsgNaiveAware == "can't compare offset-naive and offset-aware datetimes"

\* a < b as Python evaluates it: None is ordered with nothing
py_less(a, b) ==
    IF a.t = "None" \/ b.t = "None" THEN Raise("TypeError", MsgNotComparable)
    ELSE IF a.t = "datetime" /\ b.t = "datetime" /\ a.aware # b.aware
    THEN Raise("TypeError", MsgNaiveAware)
    ELSE Return(a.i < b.i)

RECURSIVE py_min_from(_, _, _)
\* min(): the loop over values[k..], best being the smallest value so far
py_min_from(best, values, k) ==
    IF k > Len(values) THEN Return(best)
    ELSE LET c == py_less(values[k], best) IN
         IF c.kind = "raise" THEN c
         ELSE py_min_from(IF c.val THEN values[k] ELSE best, values, k + 1)

RECURSIVE py_max_from(_, _, _)
\* max(): the loop over values[k..], best being the largest value so far
py_max_from(best, values, k) ==
    IF k > Len(values) THEN Return(best)
    ELSE LET c == py_less(best, values[k]) IN
         IF c.kind = "raise" THEN c
         ELSE py_max_from(IF c.val THEN values[k] ELSE best, values, k + 1)

\* min(values) and max(values) of a non-empty list
py_min(values) == py_min_from(values[1], values, 2)

py_max(values) == py_max_from(values[1], values, 2)

RECURSIVE bboxes_of(_)
\* [item.bbox for item in items if item.bbox]
bboxes_of(items) ==
    IF items = <<>> THEN <<>>
    ELSE IF Truthy(Head(items).bbox)
    THEN <<Head(items).bbox>> \o bboxes_of(Tail(items))
    ELSE bboxes_of(Tail(items))

\* (bbox[j] for bbox in bboxes), j counted from 1
bbox_coords(bboxes, j) == [k \in DOMAIN bboxes |-> PyInt(bboxes[k].l[j])]

\* get_temporal_extent taking the first and the last datetime of the list
get_temporal_extent_FirstLast(items) ==
    LET times == [k \in DOMAIN items |-> items[k].datetime]
    IN  IF times = <<>> THEN Raise("ValueError", MsgNoDatetime)
        ELSE Return(PyList(<<times[1], times[Len(times)]>>))

\* get_temporal_extent(items)
get_temporal_extent(items) ==
    LET times == [k \in DOMAIN items |-> items[k].datetime]
    IN  IF times = <<>> THEN Raise("ValueError", MsgNoDatetime)
        ELSE LET lo == py_min(times)
                 hi == py_max(times)
             IN  IF lo.kind = "raise" THEN lo
                 ELSE IF hi.kind = "raise" THEN hi
                 ELSE Return(PyList(<<lo.val, hi.val>>))

\* get_spatial_extent taking min_x from the first bbox alone
get_spatial_extent_FirstMinX(items) ==
    LET bboxes == bboxes_of(items)
        coord(j) == bbox_coords(bboxes, j)
    IN  IF bboxes = <<>> THEN Raise("ValueError", MsgNoBbox)
        ELSE Return(PyList(<<bboxes[1].l[1], py_min(coord(2)).val.i,
                             py_max(coord(3)).val.i, py_max(coord(4)).val.i>>))

\* get_spatial_extent answering an empty list with the null extent
get_spatial_extent_NoEmptyCheck(items) ==
    LET bboxes == bboxes_of(items)
        coord(j) == bbox_coords(bboxes, j)
    IN  IF bboxes = <<>> THEN Return(PyList(<<0, 0, 0, 0>>))
        ELSE Return(PyList(<<py_min(coord(1)).val.i, py_min(coord(2)).val.i,
                             py_max(coord(3)).val.i, py_max(coord(4)).val.i>>))

\* get_spatial_extent(items)
get_spatial_extent(items) ==
    LET bboxes == bboxes_of(items)
        coord(j) == bbox_coords(bboxes, j)
    IN  IF bboxes = <<>> THEN Raise("ValueError", MsgNoBbox)
        ELSE Return(PyList(<<py_min(coord(1)).val.i, py_min(coord(2)).val.i,
                             py_max(coord(3)).val.i, py_max(coord(4)).val.i>>))

\* Extent(spatial=SpatialExtent(bboxes=[get_spatial_extent(items)]),
\*        temporal=TemporalExtent([get_temporal_extent(items)]))
collection_extent(items) ==
    LET spatial  == get_spatial_extent(items)
        temporal == get_temporal_extent(items)
    IN  IF spatial.kind = "raise" THEN spatial
        ELSE IF temporal.kind = "raise" THEN temporal
        ELSE Return([t |-> "Extent", spatial |-> spatial.val, temporal |-> temporal.val])

\* to_zarr from the items read to the extent of the output collection:
\* crs = extract_crs(items[0]), then the Extent of the Collection
to_zarr_extent(items, properties) ==
    IF items = <<>> THEN Raise("IndexError", "list index out of range")
    ELSE LET crs == extract_crs(properties) IN
         IF crs.kind = "raise" THEN crs ELSE collection_extent(items)

(***************************************************************************)
(* The inputs of the aggregation: item sequences.                          *)
(***************************************************************************)
MaxItems == 3

ItemBBoxes ==
    { PyNone, PyList(<<0, 0, 10, 10>>), PyList(<<5, 5, 20, 20>>), PyList(<<-3, 7, 1, 8>>) }

ItemDatetimes == { PyNone, PyInt(1), PyInt(2) }

Items == [bbox : ItemBBoxes, datetime : ItemDatetimes]

ItemSeqs == UNION { [1..n -> Items] : n \in 0..MaxItems }

\* the properties of the first item, as far as extract_crs reads them
FirstItemProperties == { MkFields(Absent, Absent), MkFields(PyInt(32633), Absent) }

(***************************************************************************)
(* Band descriptors.  A dtype is [name]; a DataArray is [dtype, encoding,   *)
(* attrs], encoding and attrs being mappings from keys to values.          *)
(***************************************************************************)
\* np.dtype(name)
np_dtype(name) == [name |-> name]

\* the names of the keys of DTYPE_TO_RASTER, each mapped to the DataType of
\* the same name
RasterDtypeNames ==
    { "int8", "int16", "int32", "int64", "uint8", "uint16", "uint32", "uint64",
      "float16", "float32", "float64" }

DTYPE_TO_RASTER == [d \in { np_dtype(n) : n \in RasterDtypeNames } |-> d.name]

DataTypeOther == "other"

\* to_raster_datatype(dtype): DTYPE_TO_RASTER.get(np.dtype(dtype), DataType.OTHER)
to_raster_datatype(dtype) ==
    IF dtype \in DOMAIN DTYPE_TO_RASTER THEN DTYPE_TO_RASTER[dtype] ELSE DataTypeOther

\* a or b
py_or(a, b) == IF Truthy(a) THEN a ELSE b

\* RasterBand.create(...): the properties of the band, None where not given
RasterBand(data_type, nodata, scale, offset, unit) ==
    [data_type |-> data_type, nodata |-> nodata, scale |-> scale,
     offset |-> offset, unit |-> unit]

\* raster_band_from_dataarray(da), for a DataArray without the rio accessor
raster_band_from_dataarray(da) ==
    LET nodata == py_or(py_or(dict_get(da.encoding, "_FillValue"),
                              dict_get(da.attrs, "_FillValue")),
                        dict_get(da.attrs, "nodata"))
        scale  == py_or(dict_get(da.encoding, "scale_factor"),
                        dict_get(da.attrs, "scale_factor"))
        offset == py_or(dict_get(da.encoding, "add_offset"),
                        dict_get(da.attrs, "add_offset"))
        unit   == dict_get(da.attrs, "units")
    IN  Return(RasterBand(to_raster_datatype(da.dtype), nodata, scale, offset, unit))

\* the RasterBand of a measurement in to_zarr:
\* RasterBand.create(data_type=da.dtype.name, nodata=None, ...)
zarr_raster_band(da) ==
    Return(RasterBand(da.dtype.name, PyNone, PyNone, PyNone, PyNone))

(***************************************************************************)
(* The inputs of the band descriptors.                                     *)
(***************************************************************************)
OtherDtypeNames == { "bool", "complex64", "complex128", "datetime64[ns]", "object" }

Dtypes == { np_dtype(n) : n \in RasterDtypeNames \cup OtherDtypeNames }

EncodingValues == { Absent, PyNone, PyInt(0), PyInt(1) }

AttrValues == { Absent, PyInt(0), PyInt(2) }

NodataAttrValues == { Absent, PyInt(0), PyInt(3) }

\* the mapping value without the keys whose value is Absent
MkMapping(value) ==
    [k \in { x \in DOMAIN value : value[x] # Absent } |-> value[k]]

Encodings ==
    { MkMapping([_FillValue |-> f, scale_factor |-> s, add_offset |-> o]) :
        f \in EncodingValues, s \in EncodingValues, o \in EncodingValues }

Attrs ==
    { MkMapping([_FillValue |-> f, nodata |-> n, scale_factor |-> s, add_offset |-> o]) :
        f \in AttrValues, n \in NodataAttrValues, s \in AttrValues, o \in AttrValues }

DataArrays ==
    [dtype : { np_dtype("uint8"), np_dtype("bool") }, encoding : Encodings, attrs : Attrs]

DataArraysOfDtype == { [dtype |-> d, encoding |-> <<>>, attrs |-> <<>>] : d \in Dtypes }

(***************************************************************************)
(* Cube dimensions and variables.  A dataset is [coords]: a mapping from   *)
(* the name of each coordinate to its values; its data variables have the  *)
(* dimensions (time, y, x), or (time, latitude, longitude) when loaded in  *)
(* a geographic CRS.  A datetime is the instant 2020-01-01T00:00:0<i>,     *)
(* timezone-aware in UTC or naive.                                         *)
(***************************************************************************)
PyDatetime(second, aware) == [t |-> "datetime", i |-> second, aware |-> aware]

IsoDateTimePrefix ==
    <<"2", "0", "2", "0", "-", "0", "1", "-", "0", "1", "T",
      "0", "0", ":", "0", "0", ":", "0">>

UtcOffset == <<"+", "0", "0", ":", "0", "0">>

\* datetime.isoformat()
datetime_isoformat(dt) ==
    IsoDateTimePrefix \o NatDigits(dt.i) \o (IF dt.aware THEN UtcOffset ELSE <<>>)

\* str(numpy.datetime64) of a datetime64[ns] value
datetime64_str(second) ==
    IsoDateTimePrefix \o NatDigits(second)
        \o <<".", "0", "0", "0", "0", "0", "0", "0", "0", "0">>

RECURSIVE str_replace(_, _, _)
\* str.replace(old, new), old not empty
str_replace(s, old, new) ==
    IF Len(s) < Len(old) THEN s
    ELSE IF SubSeq(s, 1, Len(old)) = old
    THEN new \o str_replace(SubSeq(s, Len(old) + 1, Len(s)), old, new)
    ELSE <<Head(s)>> \o str_replace(Tail(s), old, new)

\* the dims of a data variable of the dataset
DataDims(dataset) ==
    SelectSeq(<<"time", "y", "x", "latitude", "longitude">>,
              LAMBDA n : n \in DOMAIN dataset.coords)

\* [float(min(values)), float(max(values))] of a coordinate
coord_extent(values) ==
    LET nums == [k \in DOMAIN values |-> PyInt(values[k])]
    IN  IF values = <<>> THEN Raise("ValueError", "min() arg is an empty sequence")
        ELSE Return(<<float_of_int(py_min(nums).val.i), float_of_int(py_max(nums).val.i)>>)

\* spatial_bbox = [float(min(ds.x.values)), float(min(ds.y.values)), ...]:
\* the outcome of reading ds.x and ds.y
spatial_bbox(dataset) ==
    IF "x" \notin DOMAIN dataset.coords
    THEN Raise("AttributeError", "'Dataset' object has no attribute 'x'")
    ELSE IF dataset.coords["x"] = <<>>
    THEN Raise("ValueError", "min() arg is an empty sequence")
    ELSE IF "y" \notin DOMAIN dataset.coords
    THEN Raise("AttributeError", "'Dataset' object has no attribute 'y'")
    ELSE IF dataset.coords["y"] = <<>>
    THEN Raise("ValueError", "min() arg is an empty sequence")
    ELSE Return(<<coord_extent(dataset.coords["x"]).val[1],
                  coord_extent(dataset.coords["y"]).val[1],
                  coord_extent(dataset.coords["x"]).val[2],
                  coord_extent(dataset.coords["y"]).val[2]>>)

\* get_temporal_extent(items)[k].isoformat()
temporal_extent_isoformat(items, k) ==
    LET extent == get_temporal_extent(items) IN
    IF extent.kind = "raise" THEN extent
    ELSE IF extent.val.l[k].t = "None"
    THEN Raise("AttributeError", "'NoneType' object has no attribute 'isoformat'")
    ELSE Return(datetime_isoformat(extent.val.l[k]))

\* the "x" and "y" entries of cube:dimensions in the asset-level variants
AssetSpatialDimension(axis, extent) ==
    [type |-> "spatial", axis |-> axis, extent |-> extent]

\* zarr_asset.extra_fields["cube:dimensions"] with the given time extent
AssetCubeDimensions(dataset, start, end) ==
    [time |-> [type |-> "temporal", extent |-> <<PyStr(start), PyStr(end)>>],
     x |-> AssetSpatialDimension("x", coord_extent(dataset.coords["x"]).val),
     y |-> AssetSpatialDimension("y", coord_extent(dataset.coords["y"]).val)]

\* to_zarr of stac_zarr, one pass of the measurement loop as far as it can
\* fail on the dataset: da.transpose("time", "y", "x") and the spatial
\* resolution read from da.x.values[1] and da.y.values[1]
zarr_measurement(dataset) ==
    IF DataDims(dataset) # <<"time", "y", "x">>
    THEN Raise("ValueError", "('time', 'y', 'x') must be a permuted list of the dims")
    ELSE IF Len(dataset.coords["x"]) < 2 \/ Len(dataset.coords["y"]) < 2
    THEN Raise("IndexError", "index 1 is out of bounds")
    ELSE Return([type |-> "data", dimensions |-> <<"time", "y", "x">>])

\* zarr_cube without the transpose of the measurement
zarr_cube_NoTranspose(dataset, items, measurements) ==
    LET bbox  == spatial_bbox(dataset)
        start == temporal_extent_isoformat(items, 1)
        end   == temporal_extent_isoformat(items, 2)
    IN  IF bbox.kind = "raise" THEN bbox
        ELSE IF start.kind = "raise" THEN start
        ELSE IF end.kind = "raise" THEN end
        ELSE Return([variables |->
                        [m \in { measurements[k] : k \in DOMAIN measurements } |->
                            [type |-> "data", dimensions |-> <<"time", "y", "x">>]],
                     dimensions |->
                        AssetCubeDimensions(dataset,
                            str_replace(start.val, UtcOffset, <<"Z">>),
                            str_replace(end.val, UtcOffset, <<"Z">>))])

\* to_zarr of stac_zarr from spatial_bbox to cube:variables and
\* cube:dimensions of the measurements asset
zarr_cube(dataset, items, measurements) ==
    LET bbox  == spatial_bbox(dataset)
        band  == zarr_measurement(dataset)
        start == temporal_extent_isoformat(items, 1)
        end   == temporal_extent_isoformat(items, 2)
    IN  IF bbox.kind = "raise" THEN bbox
        ELSE IF measurements # <<>> /\ band.kind = "raise" THEN band
        ELSE IF start.kind = "raise" THEN start
        ELSE IF end.kind = "raise" THEN end
        ELSE Return([variables |->
                        [m \in { measurements[k] : k \in DOMAIN measurements } |-> band.val],
                     dimensions |->
                        AssetCubeDimensions(dataset,
                            str_replace(start.val, UtcOffset, <<"Z">>),
                            str_replace(end.val, UtcOffset, <<"Z">>))])

\* to_eopf from spatial_bbox through the measurement loop: one asset per
\* measurement, each with its cube:variables and cube:dimensions
eopf_cube(dataset, items, measurements) ==
    LET bbox  == spatial_bbox(dataset)
        start == temporal_extent_isoformat(items, 1)
        end   == temporal_extent_isoformat(items, 2)
    IN  IF bbox.kind = "raise" THEN bbox
        ELSE IF measurements = <<>> THEN Return(<<>>)
        ELSE IF start.kind = "raise" THEN start
        ELSE IF end.kind = "raise" THEN end
        ELSE Return([m \in { measurements[k] : k \in DOMAIN measurements } |->
                        [variables |->
                            (m :> [type |-> "data", dimensions |-> DataDims(dataset)]),
                         dimensions |->
                            AssetCubeDimensions(dataset, start.val \o <<"Z">>,
                                                end.val \o <<"Z">>)]])

\* _get_min(name) and _get_max(name) of to_zarr in stac-zarr/app.py, as
\* given to float() or to str()
dc_get_extent(dataset, name) ==
    IF name \notin DOMAIN dataset.coords
    THEN Raise("AttributeError", "'NoneType' object has no attribute 'values'")
    ELSE IF dataset.coords[name] = <<>>
    THEN Raise("ValueError", "min() arg is an empty sequence")
    ELSE IF name = "time"
    THEN LET nums == [k \in DOMAIN dataset.coords[name] |-> PyInt(dataset.coords[name][k])]
         IN  Return(<<PyStr(datetime64_str(py_min(nums).val.i)),
                      PyStr(datetime64_str(py_max(nums).val.i))>>)
    ELSE coord_extent(dataset.coords[name])

\* dc_item.dimensions and dc_item.variables of to_zarr in stac-zarr/app.py
dc_cube(dataset, crs) ==
    LET x    == dc_get_extent(dataset, "x")
        y    == dc_get_extent(dataset, "y")
        time == dc_get_extent(dataset, "time")
    IN  IF x.kind = "raise" THEN x
        ELSE IF y.kind = "raise" THEN y
        ELSE IF time.kind = "raise" THEN time
        ELSE Return([dimensions |->
                        [x |-> [type |-> "spatial", axis |-> "x", extent |-> x.val,
                                reference_system |-> crs],
                         y |-> [type |-> "spatial", axis |-> "y", extent |-> y.val,
                                reference_system |-> crs],
                         time |-> [type |-> "temporal", extent |-> time.val]],
                     variables |->
                        [data |-> [type |-> "data", dimensions |-> <<"y", "x", "time">>]]])

(***************************************************************************)
(* The inputs of the cube: datasets, item datetimes, measurements.         *)
(***************************************************************************)
MaxCoords == 2

CoordValues == { 0, 10 }

CoordSeqs == UNION { [1..n -> CoordValues] : n \in 1..MaxCoords }

TimeSeqs == { <<1>>, <<2, 1>> }

\* the coordinates stac_load gives: (time, y, x), or (time, latitude,
\* longitude) in a geographic CRS; and datasets that miss one of them
Datasets ==
    { [coords |-> [time |-> t, y |-> y, x |-> x]] :
        t \in TimeSeqs, y \in CoordSeqs, x \in CoordSeqs }
    \cup { [coords |-> [y |-> y, x |-> x]] : y \in CoordSeqs, x \in CoordSeqs }
    \cup { [coords |-> [time |-> t, y |-> y]] : t \in TimeSeqs, y \in CoordSeqs }
    \cup { [coords |-> [time |-> t, x |-> x]] : t \in TimeSeqs, x \in CoordSeqs }
    \cup { [coords |-> [time |-> t, latitude |-> y, longitude |-> y]] :
             t \in TimeSeqs, y \in CoordSeqs }

CubeDatetimes ==
    { PyNone, PyDatetime(1, TRUE), PyDatetime(2, TRUE), PyDatetime(1, FALSE) }

\* items as far as the cube reads them: their datetimes
CubeItemSeqs ==
    { [k \in DOMAIN dts |-> [bbox |-> PyNone, datetime |-> dts[k]]] :
        dts \in UNION { [1..n -> CubeDatetimes] : n \in 0..2 } }

MeasurementSeqs == { <<>>, <<"red", "nir">> }

ResolvedCrs ==
    { PyStr(<<"e", "p", "s", "g", ":", "3", "2", "6", "3", "3">>),
      PyStr(<<"e", "p", "s", "g", ":", "4", "3", "2", "6">>) }

(***************************************************************************)
(* to_zarr of stac_zarr as a process.  Its input is what the catalog       *)
(* reader and stac_load hand it: the items, the properties of the first    *)
(* item, the loaded dataset, the asset keys of the first item; save says   *)
(* whether the catalog writer succeeds.  The files are the store the       *)
(* command opens, one array per measurement, and the catalog.              *)
(***************************************************************************)
\* no command running
Idle == [cmd |-> "none", pc |-> "idle"]

File(kind, name) == [kind |-> kind, name |-> name]

StoreFile == File("store", "")

CatalogFile == File("catalog", "")

\* the descriptors the runs of the process have produced so far
Produced(p) == IF "produced" \in DOMAIN p THEN p.produced ELSE <<>>

\* a run that ended in the exception of outcome r
Failed(p, cmd, input, r) ==
    [cmd |-> cmd, pc |-> "failed", input |-> input, error |-> r,
     produced |-> Produced(p)]

\* bands, cube_variables and raster_bands carried over from the last run
zarr_accumulators_Kept(p) ==
    IF "bands" \in DOMAIN p
    THEN [bands |-> p.bands, cube_variables |-> p.cube_variables,
          raster_bands |-> p.raster_bands]
    ELSE [bands |-> <<>>, cube_variables |-> <<>>, raster_bands |-> <<>>]

\* bands = [], cube_variables = {}, raster_bands = []: local to the run
zarr_accumulators(p) ==
    [bands |-> <<>>, cube_variables |-> <<>>, raster_bands |-> <<>>]

\* to_zarr from its entry to the opening of the store: the CRS of the first
\* item, the extent of the collection, spatial_bbox
zarr_begin(p, input) ==
    LET extent == to_zarr_extent(input.items, input.properties)
        bbox   == spatial_bbox(input.dataset)
        acc    == zarr_accumulators(p)
    IN  IF extent.kind = "raise" THEN Failed(p, "to_zarr", input, extent)
        ELSE IF bbox.kind = "raise" THEN Failed(p, "to_zarr", input, bbox)
        ELSE [cmd |-> "to_zarr", pc |-> "loop", input |-> input, k |-> 1,
              extent |-> extent.val, spatial_bbox |-> bbox.val,
              bands |-> acc.bands, cube_variables |-> acc.cube_variables,
              raster_bands |-> acc.raster_bands, produced |-> Produced(p)]

\* zarr.open_group opening the store without emptying it (mode="a")
zarr_open_group_Append(files) == files \cup { StoreFile }

\* zarr.open_group(..., mode="w"): the store emptied and created
zarr_open_group(files) == { f \in files : f.kind = "catalog" } \cup { StoreFile }

\* one pass of the measurement loop
zarr_loop(p) ==
    LET m    == p.input.measurements[p.k]
        band == zarr_measurement(p.input.dataset)
        da   == [dtype |-> p.input.dtype, encoding |-> <<>>, attrs |-> <<>>]
    IN  IF band.kind = "raise" THEN Failed(p, "to_zarr", p.input, band)
        ELSE [p EXCEPT !.k = @ + 1,
                       !.bands = Append(@, [name |-> m, description |-> m]),
                       !.cube_variables = (m :> band.val) @@ @,
                       !.raster_bands = Append(@, zarr_raster_band(da).val)]

\* the array of the measurement is written before its spatial resolution is
\* read, and after the transpose
zarr_loop_files(p, files) ==
    IF DataDims(p.input.dataset) = <<"time", "y", "x">>
    THEN files \cup { File("array", p.input.measurements[p.k]) }
    ELSE files

\* to_zarr after the loop: the asset with bands, cube:variables,
\* cube:dimensions, the projection and the raster bands
zarr_asset(p) ==
    LET start == temporal_extent_isoformat(p.input.items, 1)
        end   == temporal_extent_isoformat(p.input.items, 2)
    IN  IF start.kind = "raise" THEN Failed(p, "to_zarr", p.input, start)
        ELSE IF end.kind = "raise" THEN Failed(p, "to_zarr", p.input, end)
        ELSE [p EXCEPT !.pc = "save"] @@
             [descriptor |->
                 [extent |-> p.extent,
                  bands |-> p.bands,
                  variables |-> p.cube_variables,
                  dimensions |->
                      AssetCubeDimensions(p.input.dataset,
                          str_replace(start.val, UtcOffset, <<"Z">>),
                          str_replace(end.val, UtcOffset, <<"Z">>)),
                  bbox |-> p.spatial_bbox,
                  raster_bands |-> p.raster_bands]]

\* output_cat.normalize_and_save(...) having succeeded
zarr_saved(p) ==
    [p EXCEPT !.pc = "done", !.produced = Append(@, p.descriptor)]

(***************************************************************************)
(* The inputs of the runs.                                                 *)
(***************************************************************************)
MaxRuns == 2

RunItems ==
    { [bbox |-> PyList(<<0, 0, 10, 10>>), datetime |-> PyDatetime(1, TRUE)],
      [bbox |-> PyList(<<5, 5, 20, 20>>), datetime |-> PyDatetime(2, TRUE)],
      [bbox |-> PyNone, datetime |-> PyNone] }

RunItemSeqs == UNION { [1..n -> RunItems] : n \in 0..2 }

RunDatasets ==
    { [coords |-> [time |-> <<1, 2>>, y |-> <<10, 0>>, x |-> <<0, 10>>]],
      [coords |-> [time |-> <<1>>, y |-> <<10, 0>>, x |-> <<0>>]],
      [coords |-> [y |-> <<10, 0>>, x |-> <<0, 10>>]],
      [coords |-> [time |-> <<1, 2>>, latitude |-> <<10, 0>>, longitude |-> <<0, 10>>]] }

ZarrInputs ==
    [items : RunItemSeqs, properties : FirstItemProperties, dataset : RunDatasets,
     measurements : MeasurementSeqs, dtype : { np_dtype("uint8") }]

(***************************************************************************)
(* The CRS of the output of to_zarr: items are here the property mappings  *)
(* of the items of the input collection.                                   *)
(***************************************************************************)
\* crs = extract_crs(items[0]); stac_load(items, crs=crs) reprojects every
\* item to it; the projection of the asset is that of the loaded dataset
to_zarr_crs(items) ==
    IF items = <<>> THEN Raise("IndexError", "list index out of range")
    ELSE LET crs == extract_crs(items[1]) IN
         IF crs.kind = "raise" THEN crs
         ELSE LET gbox_crs == CRS_from_user_input(crs.val) IN
              IF gbox_crs.kind = "raise" THEN gbox_crs
              ELSE Return([crs |-> crs.val, proj |-> gbox_crs.val])

ItemProperties ==
    { MkFields(Absent, Absent),
      MkFields(PyInt(32633), Absent),
      MkFields(PyInt(4326), Absent),
      MkFields(Absent, PyStr(<<"E", "P", "S", "G", ":", "4", "3", "2", "6">>)),
      MkFields(Absent, PyStr(<<"E", "p", "s", "g", ":", "3", "2", "6", "3", "3">>)),
      MkFields(Absent, PyStr(<<"E", "S", "R", "I", ":", "5", "4", "0", "0", "9">>)) }

ItemPropertySeqs == UNION { [1..n -> ItemProperties] : n \in 0..MaxItems }

(***************************************************************************)
(* to_zarr of stac-zarr/app.py as a process: the extent, the store, the    *)
(* datacube fields, the catalog.                                           *)
(***************************************************************************)
\* to_zarr from its entry to the Collection with its Extent
dc_begin(input) ==
    LET extent == to_zarr_extent(input.items, input.properties) IN
    IF extent.kind = "raise" THEN Failed(Idle, "dc_to_zarr", input, extent)
    ELSE [cmd |-> "dc_to_zarr", pc |-> "store", input |-> input,
          crs |-> extract_crs(input.properties).val, extent |-> extent.val]

\* dc_item.dimensions, dc_item.variables, the asset and the catalog object
dc_describe(p) ==
    LET cube == dc_cube(p.input.dataset, p.crs) IN
    IF cube.kind = "raise" THEN Failed(Idle, "dc_to_zarr", p.input, cube)
    ELSE [p EXCEPT !.pc = "save"] @@ [descriptor |-> cube.val]

DcInputs ==
    [items : RunItemSeqs, properties : FirstItemProperties, dataset : RunDatasets]

(***************************************************************************)
(* to_stac of stac_collection as a process.  Its input is the three        *)
(* repeated options; an item url stands for the item read from it.         *)
(***************************************************************************)
\* what the loop does for item_urls[k] before anything is written:
\* the item read, otsu[index], ndwi[index]
stac_loop_lookup(p) ==
    IF p.k > Len(p.input.otsu) THEN Raise("IndexError", "tuple index out of range")
    ELSE IF p.k > Len(p.input.ndwi) THEN Raise("IndexError", "tuple index out of range")
    ELSE Return(<<p.input.otsu[p.k], p.input.ndwi[p.k]>>)

\* one pass of the loop over item_urls
stac_loop(p) ==
    LET found == stac_loop_lookup(p) IN
    IF found.kind = "raise" THEN Failed(Idle, "to_stac", p.input, found)
    ELSE [p EXCEPT !.k = @ + 1,
                   !.out_items = Append(@, [bbox |-> p.input.item_urls[p.k].bbox,
                                            datetime |-> p.input.item_urls[p.k].datetime])]

\* asset_path.mkdir and the two shutil.copy of the pass
stac_loop_files(p, files) ==
    IF stac_loop_lookup(p).kind = "raise" THEN files
    ELSE files \cup { File("otsu", p.input.item_urls[p.k].id),
                      File("ndwi", p.input.item_urls[p.k].id) }

\* the Collection with its Extent, the item assets, cat.add_child
stac_collection(p) ==
    LET extent == collection_extent(p.out_items) IN
    IF extent.kind = "raise" THEN Failed(Idle, "to_stac", p.input, extent)
    ELSE [p EXCEPT !.pc = "save"] @@ [descriptor |-> [extent |-> extent.val]]

StacItems ==
    { [id |-> "a", bbox |-> PyList(<<0, 0, 10, 10>>), datetime |-> PyInt(1)],
      [id |-> "b", bbox |-> PyList(<<5, 5, 20, 20>>), datetime |-> PyInt(2)],
      [id |-> "c", bbox |-> PyList(<<-3, 7, 1, 8>>), datetime |-> PyNone] }

OptionValues(values) == UNION { [1..n -> values] : n \in 1..2 }

StacInputs ==
    [item_urls : OptionValues(StacItems),
     otsu : OptionValues({ "otsu.tif" }),
     ndwi : OptionValues({ "ndwi.tif" })]

(***************************************************************************)
(* The items of an input catalog of to_eopf: STAC leaves the order of the  *)
(* west and east edges of a bbox free (a bbox that crosses the             *)
(* antimeridian has west > east), and pystac does not check it.            *)
(***************************************************************************)
CatalogBBoxes ==
    { PyNone, PyList(<<0, 0, 10, 10>>), PyList(<<5, 5, 20, 20>>),
      PyList(<<170, -10, -170, 10>>) }

CatalogItemSeqs ==
    UNION { [1..n -> [bbox : CatalogBBoxes, datetime : ItemDatetimes]] : n \in 0..MaxItems }

(***************************************************************************)
(* CfParameter of cf_extension.py.  A dict is a mapping from its keys to   *)
(* their values; the heap is the sequence of the dicts alive, heap[1] the  *)
(* properties of the parameter, and a reference is an index into it, so    *)
(* that a copy and an alias differ.                                        *)
(***************************************************************************)
\* CfParameter.name, the getter: get_required(self.properties.get("name"), ...)
cf_name(properties) ==
    IF dict_get(properties, "name") = PyNone
    THEN Raise("RequiredPropertyMissing", "name")
    ELSE Return(properties["name"])

\* CfParameter.name, the setter
cf_set_name(properties, v) == ("name" :> v) @@ properties

\* CfParameter.unit, the getter
cf_unit(properties) == dict_get(properties, "unit")

\* CfParameter.unit, the setter
cf_set_unit(properties, v) ==
    IF v = PyNone
    THEN [k \in DOMAIN properties \ { "unit" } |-> properties[k]]
    ELSE ("unit" :> v) @@ properties

\* CfParameter.create(name, unit): the properties of the new parameter
cf_create(name, unit) ==
    LET p == cf_set_name(<<>>, name) IN
    IF unit # PyNone THEN cf_set_unit(p, unit) ELSE p

\* to_dict handing out the properties themselves
cf_to_dict_Alias(heap) == [heap |-> <<heap[1]>>, ref |-> 1]

\* CfParameter.to_dict: dict(self.properties), a new dict with the same
\* items
cf_to_dict(heap) == [heap |-> <<heap[1], heap[1]>>, ref |-> 2]

\* a parameter alive: its heap, the dict to_dict returned last (0: none),
\* the unit assigned last (Absent: none yet), the name given last, the
\* number of operations made on it
CfObject(properties, name) ==
    [cmd |-> "CfParameter", pc |-> "live", heap |-> <<properties>>, ref |-> 0,
     last |-> Absent, name |-> name, n |-> 0]

MaxOps == 3

CfNames == { PyStr(<<"t", "a", "s">>), PyStr(<<"p", "r">>) }

CfUnits == { PyNone, PyStr(<<"K">>), PyStr(<<>>) }

\* the entries of cf:parameter that _CfCommon.parameters wraps
CfRawParameters ==
    { cf_create(name, unit) : name \in CfNames, unit \in CfUnits } \cup { <<>> }

(***************************************************************************)
(* Actions.                                                                *)
(***************************************************************************)
Init ==
    /\ call = "none"
    /\ args = <<>>
    /\ ret = Return(PyNone)
    /\ proc = Idle
    /\ disk = {}

CallExtractCrs ==
    /\ call = "none"
    /\ UNCHANGED <<proc, disk>>
    /\ \E fields \in FieldMappings :
           /\ call' = "extract_crs"
           /\ args' = fields
           /\ ret' = extract_crs(fields)

CallCrsFromStacAsset ==
    /\ call = "none"
    /\ UNCHANGED <<proc, disk>>
    /\ \E fields \in FieldMappings :
           /\ call' = "crs_from_stac_asset"
           /\ args' = fields
           /\ ret' = crs_from_stac_asset(fields)

NextCrs == CallExtractCrs \/ CallCrsFromStacAsset

SpecCrs == Init /\ [][NextCrs]_vars

CallAffineFromStacAsset ==
    /\ call = "none"
    /\ UNCHANGED <<proc, disk>>
    /\ \E fields \in ProjFields :
           /\ call' = "affine_from_stac_asset"
           /\ args' = fields
           /\ ret' = affine_from_stac_asset(fields)

NextGrid == CallAffineFromStacAsset

SpecGrid == Init /\ [][NextGrid]_vars

CallGetSpatialExtent ==
    /\ call = "none"
    /\ UNCHANGED <<proc, disk>>
    /\ \E items \in ItemSeqs :
           /\ call' = "get_spatial_extent"
           /\ args' = items
           /\ ret' = get_spatial_extent(items)

CallGetTemporalExtent ==
    /\ call = "none"
    /\ UNCHANGED <<proc, disk>>
    /\ \E items \in ItemSeqs :
           /\ call' = "get_temporal_extent"
           /\ args' = items
           /\ ret' = get_temporal_extent(items)

CallCollectionExtent ==
    /\ call = "none"
    /\ UNCHANGED <<proc, disk>>
    /\ \E items \in ItemSeqs :
           /\ call' = "collection_extent"
           /\ args' = items
           /\ ret' = collection_extent(items)

CallToZarrExtent ==
    /\ call = "none"
    /\ UNCHANGED <<proc, disk>>
    /\ \E items \in ItemSeqs, properties \in FirstItemProperties :
           /\ call' = "to_zarr_extent"
           /\ args' = [items |-> items, properties |-> properties]
           /\ ret' = to_zarr_extent(items, properties)

NextExtent ==
    \/ CallGetSpatialExtent
    \/ CallGetTemporalExtent
    \/ CallCollectionExtent
    \/ CallToZarrExtent

SpecExtent == Init /\ [][NextExtent]_vars

CallToRasterDatatype ==
    /\ call = "none"
    /\ UNCHANGED <<proc, disk>>
    /\ \E da \in DataArraysOfDtype :
           /\ call' = "to_raster_datatype"
           /\ args' = da
           /\ ret' = Return(to_raster_datatype(da.dtype))

CallRasterBandFromDataarray ==
    /\ call = "none"
    /\ UNCHANGED <<proc, disk>>
    /\ \E da \in DataArrays \cup DataArraysOfDtype :
           /\ call' = "raster_band_from_dataarray"
           /\ args' = da
           /\ ret' = raster_band_from_dataarray(da)

CallZarrRasterBand ==
    /\ call = "none"
    /\ UNCHANGED <<proc, disk>>
    /\ \E da \in DataArraysOfDtype :
           /\ call' = "zarr_raster_band"
           /\ args' = da
           /\ ret' = zarr_raster_band(da)

NextBand == CallToRasterDatatype \/ CallRasterBandFromDataarray \/ CallZarrRasterBand

SpecBand == Init /\ [][NextBand]_vars

CallZarrCube ==
    /\ call = "none"
    /\ UNCHANGED <<proc, disk>>
    /\ \E dataset \in Datasets, items \in CubeItemSeqs,
          measurements \in MeasurementSeqs, crs \in ResolvedCrs :
           /\ call' = "zarr_cube"
           /\ args' = [dataset |-> dataset, items |-> items,
                       measurements |-> measurements, crs |-> crs]
           /\ ret' = zarr_cube(dataset, items, measurements)

CallEopfCube ==
    /\ call = "none"
    /\ UNCHANGED <<proc, disk>>
    /\ \E dataset \in Datasets, items \in CubeItemSeqs,
          measurements \in MeasurementSeqs, crs \in ResolvedCrs :
           /\ call' = "eopf_cube"
           /\ args' = [dataset |-> dataset, items |-> items,
                       measurements |-> measurements, crs |-> crs]
           /\ ret' = eopf_cube(dataset, items, measurements)

CallDcCube ==
    /\ call = "none"
    /\ UNCHANGED <<proc, disk>>
    /\ \E dataset \in Datasets, crs \in ResolvedCrs :
           /\ call' = "dc_cube"
           /\ args' = [dataset |-> dataset, items |-> <<>>,
                       measurements |-> <<"data">>, crs |-> crs]
           /\ ret' = dc_cube(dataset, crs)

NextCube == CallZarrCube \/ CallEopfCube \/ CallDcCube

SpecCube == Init /\ [][NextCube]_vars

\* the Extent of the output collection of to_eopf
CallEopfExtent ==
    /\ call = "none"
    /\ UNCHANGED <<proc, disk>>
    /\ \E items \in CatalogItemSeqs :
           /\ call' = "eopf_extent"
           /\ args' = items
           /\ ret' = collection_extent(items)

NextAggregate == CallEopfExtent

SpecAggregate == Init /\ [][NextAggregate]_vars

CallToZarrCrs ==
    /\ call = "none"
    /\ UNCHANGED <<proc, disk>>
    /\ \E items \in ItemPropertySeqs :
           /\ call' = "to_zarr_crs"
           /\ args' = items
           /\ ret' = to_zarr_crs(items)

NextCompose == CallToZarrCrs

SpecCompose == Init /\ [][NextCompose]_vars

\* to_zarr is started on an input
ZarrStart ==
    /\ proc = Idle
    /\ \E input \in ZarrInputs :
           /\ proc' = zarr_begin(proc, input)
           /\ disk' = IF proc'.pc = "failed" THEN disk ELSE zarr_open_group(disk)
    /\ UNCHANGED <<call, args, ret>>

\* to_zarr is started again on the input of the run that has ended
ZarrRerun ==
    /\ proc.cmd = "to_zarr"
    /\ proc.pc = "done"
    /\ Len(proc.produced) < MaxRuns
    /\ proc' = zarr_begin(proc, proc.input)
    /\ disk' = IF proc'.pc = "failed" THEN disk ELSE zarr_open_group(disk)
    /\ UNCHANGED <<call, args, ret>>

ZarrMeasurement ==
    /\ proc.cmd = "to_zarr"
    /\ proc.pc = "loop"
    /\ proc.k <= Len(proc.input.measurements)
    /\ proc' = zarr_loop(proc)
    /\ disk' = zarr_loop_files(proc, disk)
    /\ UNCHANGED <<call, args, ret>>

ZarrAsset ==
    /\ proc.cmd = "to_zarr"
    /\ proc.pc = "loop"
    /\ proc.k > Len(proc.input.measurements)
    /\ proc' = zarr_asset(proc)
    /\ UNCHANGED <<call, args, ret, disk>>

\* normalize_and_save writes the catalog
ZarrSave ==
    /\ proc.cmd = "to_zarr"
    /\ proc.pc = "save"
    /\ proc' = zarr_saved(proc)
    /\ disk' = disk \cup { CatalogFile }
    /\ UNCHANGED <<call, args, ret>>

\* normalize_and_save fails: the catalog writer raises
ZarrSaveFails ==
    /\ proc.cmd = "to_zarr"
    /\ proc.pc = "save"
    /\ proc' = Failed(proc, "to_zarr", proc.input, Raise("OSError", "normalize_and_save"))
    /\ UNCHANGED <<call, args, ret, disk>>

NextZarrRun ==
    \/ ZarrStart
    \/ ZarrRerun
    \/ ZarrMeasurement
    \/ ZarrAsset
    \/ ZarrSave
    \/ ZarrSaveFails

SpecZarrRun == Init /\ [][NextZarrRun]_vars

DcStart ==
    /\ proc = Idle
    /\ \E input \in DcInputs : proc' = dc_begin(input)
    /\ UNCHANGED <<call, args, ret, disk>>

\* output_collection_dir.mkdir, stac_catalog_dataset.to_zarr(mode="w"),
\* zarr.consolidate_metadata
DcStore ==
    /\ proc.cmd = "dc_to_zarr"
    /\ proc.pc = "store"
    /\ proc' = [proc EXCEPT !.pc = "describe"]
    /\ disk' = disk \cup { StoreFile }
    /\ UNCHANGED <<call, args, ret>>

DcDescribe ==
    /\ proc.cmd = "dc_to_zarr"
    /\ proc.pc = "describe"
    /\ proc' = dc_describe(proc)
    /\ UNCHANGED <<call, args, ret, disk>>

DcSave ==
    /\ proc.cmd = "dc_to_zarr"
    /\ proc.pc = "save"
    /\ proc' = [proc EXCEPT !.pc = "done"]
    /\ disk' = disk \cup { CatalogFile }
    /\ UNCHANGED <<call, args, ret>>

DcSaveFails ==
    /\ proc.cmd = "dc_to_zarr"
    /\ proc.pc = "save"
    /\ proc' = Failed(Idle, "dc_to_zarr", proc.input, Raise("OSError", "normalize_and_save"))
    /\ UNCHANGED <<call, args, ret, disk>>

NextDcRun == DcStart \/ DcStore \/ DcDescribe \/ DcSave \/ DcSaveFails

StacStart ==
    /\ proc = Idle
    /\ \E input \in StacInputs :
           proc' = [cmd |-> "to_stac", pc |-> "loop", input |-> input, k |-> 1,
                    out_items |-> <<>>]
    /\ UNCHANGED <<call, args, ret, disk>>

StacItem ==
    /\ proc.cmd = "to_stac"
    /\ proc.pc = "loop"
    /\ proc.k <= Len(proc.input.item_urls)
    /\ proc' = stac_loop(proc)
    /\ disk' = stac_loop_files(proc, disk)
    /\ UNCHANGED <<call, args, ret>>

StacCollection ==
    /\ proc.cmd = "to_stac"
    /\ proc.pc = "loop"
    /\ proc.k > Len(proc.input.item_urls)
    /\ proc' = stac_collection(proc)
    /\ UNCHANGED <<call, args, ret, disk>>

StacSave ==
    /\ proc.cmd = "to_stac"
    /\ proc.pc = "save"
    /\ proc' = [proc EXCEPT !.pc = "done"]
    /\ disk' = disk \cup { CatalogFile }
    /\ UNCHANGED <<call, args, ret>>

StacSaveFails ==
    /\ proc.cmd = "to_stac"
    /\ proc.pc = "save"
    /\ proc' = Failed(Idle, "to_stac", proc.input, Raise("OSError", "normalize_and_save"))
    /\ UNCHANGED <<call, args, ret, disk>>

NextStacRun == StacStart \/ StacItem \/ StacCollection \/ StacSave \/ StacSaveFails

NextConvert == NextDcRun \/ NextStacRun

SpecConvert == Init /\ [][NextConvert]_vars

\* CfParameter.create(name, unit)
CfCreate ==
    /\ proc = Idle
    /\ \E name \in CfNames, unit \in CfUnits :
           proc' = CfObject(cf_create(name, unit), name)
    /\ UNCHANGED <<call, args, ret, disk>>

\* CfParameter(d)
CfInit ==
    /\ proc = Idle
    /\ \E d \in CfRawParameters : proc' = CfObject(d, dict_get(d, "name"))
    /\ UNCHANGED <<call, args, ret, disk>>

\* p.unit = v
CfSetUnit ==
    /\ proc.cmd = "CfParameter"
    /\ proc.n < MaxOps
    /\ \E v \in CfUnits :
           proc' = [proc EXCEPT !.heap[1] = cf_set_unit(@, v), !.last = v, !.n = @ + 1]
    /\ UNCHANGED <<call, args, ret, disk>>

\* p.name = v
CfSetName ==
    /\ proc.cmd = "CfParameter"
    /\ proc.n < MaxOps
    /\ \E v \in CfNames :
           proc' = [proc EXCEPT !.heap[1] = cf_set_name(@, v), !.name = v, !.n = @ + 1]
    /\ UNCHANGED <<call, args, ret, disk>>

\* d = p.to_dict()
CfToDict ==
    /\ proc.cmd = "CfParameter"
    /\ proc.n < MaxOps
    /\ proc' = [proc EXCEPT !.heap = cf_to_dict(proc.heap).heap,
                            !.ref = cf_to_dict(proc.heap).ref, !.n = @ + 1]
    /\ UNCHANGED <<call, args, ret, disk>>

\* the caller changes the dict to_dict returned: d[key] = v or del d[key]
CfChangeDict ==
    /\ proc.cmd = "CfParameter"
    /\ proc.n < MaxOps
    /\ proc.ref # 0
    /\ \E key \in { "name", "unit", "extra" } :
           \/ proc' = [proc EXCEPT !.heap[proc.ref] = (key :> PyStr(<<"x">>)) @@ @,
                                   !.n = @ + 1]
           \/ /\ key \in DOMAIN proc.heap[proc.ref]
              /\ proc' = [proc EXCEPT
                             !.heap[proc.ref] = [k \in DOMAIN @ \ { key } |-> @[k]],
                             !.n = @ + 1]
    /\ UNCHANGED <<call, args, ret, disk>>

NextCf ==
    \/ CfCreate
    \/ CfInit
    \/ CfSetUnit
    \/ CfSetName
    \/ CfToDict
    \/ CfChangeDict

SpecCf == Init /\ [][NextCf]_vars

Next == NextCrs \/ NextGrid \/ NextExtent \/ NextBand \/ NextCube \/ NextCompose \/ NextZarrRun \/ NextConvert
        \/ NextAggregate \/ NextCf

Spec == Init /\ [][Next]_vars

(***************************************************************************)
(* Claims about CRS resolution.                                            *)
(***************************************************************************)
IsResolverCall == call \in { "extract_crs", "crs_from_stac_asset" }

\* the legacy field is present and non-empty
LegacyUsable(fields) == Truthy(dict_get(fields, "proj:epsg"))

\* the modern field is a string that begins with "EPSG:" in any letter case
ModernIsEpsg(fields) ==
    LET code == dict_get(fields, "proj:code") IN
    /\ code.t = "str"
    /\ Len(code.s) >= 5
    /\ \A k \in 1..5 : UpperChar(code.s[k]) = <<"E", "P", "S", "G", ":">>[k]

\* r is s with every upper-case letter replaced by its lower-case letter
IsLowerCased(r, s) ==
    /\ Len(r) = Len(s)
    /\ \A k \in DOMAIN s :
          /\ UpperChar(r[k]) = UpperChar(s[k])
          /\ \A j \in DOMAIN UpperLetters : r[k] # UpperLetters[j]

\* C1: whenever the legacy field proj:epsg is present and non-empty, every
\* CRS resolver returns the CRS 'epsg:<n>' of that value, whatever proj:code
\* holds.
C1_LegacyTakesPrecedence ==
    (IsResolverCall /\ LegacyUsable(args)) =>
        /\ ret.kind = "return"
        /\ CrsIdOf(ret.val) = <<<<"E", "P", "S", "G">>, NatDigits(args["proj:epsg"].i)>>

\* C1 restricted to extract_crs: it returns the string 'epsg:<n>'.
C1_ExtractCrsLegacy ==
    (call = "extract_crs" /\ LegacyUsable(args)) =>
        ret = Return(PyStr(<<"e", "p", "s", "g", ":">> \o NatDigits(args["proj:epsg"].i)))

\* C2: with no usable legacy field and a modern field that begins with
\* "EPSG:" in any letter case, extract_crs returns the modern value
\* lower-cased.
C2_ModernLowerCased ==
    (call = "extract_crs" /\ ~LegacyUsable(args) /\ ModernIsEpsg(args)) =>
        /\ ret.kind = "return"
        /\ ret.val.t = "str"
        /\ IsLowerCased(ret.val.s, args["proj:code"].s)

\* C2 witness: {proj:code: 'Epsg:32633'} resolved to 'epsg:32633'.
C2_Witness ==
    /\ call = "extract_crs"
    /\ args = MkFields(Absent, PyStr(<<"E", "p", "s", "g", ":", "3", "2", "6", "3", "3">>))
    /\ ret = Return(PyStr(<<"e", "p", "s", "g", ":", "3", "2", "6", "3", "3">>))

\* the mapping carries no usable CRS: neither field, or only a modern code
\* that does not begin with "EPSG:"
NoRecognisedCrs(fields) ==
    /\ "proj:epsg" \notin DOMAIN fields
    /\ \/ "proj:code" \notin DOMAIN fields
       \/ (fields["proj:code"].t = "str" /\ ~ModernIsEpsg(fields))

\* C3: every CRS resolver fails, and returns no CRS value, for a mapping
\* with neither CRS field and for a mapping whose only CRS field is a modern
\* code that does not begin with "EPSG:" (no other authority is recognised).
C3_MissingCrs ==
    (IsResolverCall /\ NoRecognisedCrs(args)) => ret.kind = "raise"

\* C3 restricted to extract_crs.
C3_ExtractCrsMissing ==
    (call = "extract_crs" /\ NoRecognisedCrs(args)) =>
        ret = Raise("ValueError", MsgCrsNotFound)

(***************************************************************************)
(* Claims about grid geometry reconstruction.                              *)
(***************************************************************************)
IsReconstruct ==
    /\ call = "affine_from_stac_asset"
    /\ { "proj:bbox", "proj:shape" } \subseteq DOMAIN args

ArgXmin == args["proj:bbox"].l[1]

ArgYmin == args["proj:bbox"].l[2]

ArgXmax == args["proj:bbox"].l[3]

ArgYmax == args["proj:bbox"].l[4]

ArgRows == args["proj:shape"].l[1]

ArgCols == args["proj:shape"].l[2]

\* C4: for rows > 0 and cols > 0, reconstruct returns the affine
\* [xres, 0, xmin, 0, -yres, ymax] with xres = (xmax - xmin) / cols and
\* yres = (ymax - ymin) / rows; bbox (0,0,100,50) with shape (50,100) gives
\* [1, 0, 0, 0, -1, 50].
C4_AffineCoefficients ==
    (IsReconstruct /\ ArgRows > 0 /\ ArgCols > 0) =>
        /\ ret.kind = "return"
        /\ float_eq(ret.val.a, float_div(ArgXmax - ArgXmin, ArgCols))
        /\ float_eq(ret.val.b, FloatZero(0))
        /\ float_eq(ret.val.c, float_of_int(ArgXmin))
        /\ float_eq(ret.val.d, FloatZero(0))
        /\ float_eq(ret.val.e, float_neg(float_div(ArgYmax - ArgYmin, ArgRows)))
        /\ float_eq(ret.val.f, float_of_int(ArgYmax))
        /\ (args["proj:bbox"].l = <<0, 0, 100, 50>> /\ args["proj:shape"].l = <<50, 100>>) =>
              ret.val = Affine(float_of_int(1), FloatZero(0), FloatZero(0),
                               FloatZero(0), float_of_int(-1), float_of_int(50))

\* C4 witness: the scenario bbox (0,0,100,50), shape (rows=50, cols=100).
C4_Witness ==
    /\ IsReconstruct
    /\ args["proj:bbox"].l = <<0, 0, 100, 50>>
    /\ args["proj:shape"].l = <<50, 100>>
    /\ ret.kind = "return"
    /\ ret.val.a = float_of_int(1)
    /\ ret.val.e = float_of_int(-1)

\* |x| <= |y| on floats
FloatAbsLeq(x, y) ==
    IF x.m = <<>> THEN TRUE
    ELSE IF y.m = <<>> THEN FALSE
    ELSE \/ x.e < y.e
         \/ (x.e = y.e /\ SubChain(y.m, x.m, 0).carry = 0)

\* |x - n| <= 2^-51 * k for a float x and ints n and k >= 0
WithinRounding(x, n, k) ==
    LET diff == float_add(x, float_neg(float_of_int(n)))
        tol  == [float_of_int(k) EXCEPT !.e = @ - 51]
    IN  FloatAbsLeq(diff, tol)

FarCorner == affine_apply(ret.val, ArgCols, ArgRows)

NearCorner == affine_apply(ret.val, 0, 0)

\* C5 as stated: for rows > 0 and cols > 0, the affine applied to pixel (0,0)
\* gives (xmin, ymax) and applied to pixel (cols, rows) gives (xmax, ymin).
C5_CornerRoundTrip ==
    (IsReconstruct /\ ArgRows > 0 /\ ArgCols > 0) =>
        /\ float_eq(NearCorner.x, float_of_int(ArgXmin))
        /\ float_eq(NearCorner.y, float_of_int(ArgYmax))
        /\ float_eq(FarCorner.x, float_of_int(ArgXmax))
        /\ float_eq(FarCorner.y, float_of_int(ArgYmin))

\* C5 amended: pixel (0,0) gives (xmin, ymax) exactly; pixel (cols, rows)
\* gives (xmax, ymin) exactly on an axis whose extent is a whole multiple of
\* its pixel count, and on any axis to within the rounding of the float
\* operations: 2^-51 * (|extent| + |coordinate|).
C5_CornerRoundTripRounded ==
    (IsReconstruct /\ ArgRows > 0 /\ ArgCols > 0) =>
        /\ float_eq(NearCorner.x, float_of_int(ArgXmin))
        /\ float_eq(NearCorner.y, float_of_int(ArgYmax))
        /\ ((ArgXmax - ArgXmin) % ArgCols = 0) =>
              float_eq(FarCorner.x, float_of_int(ArgXmax))
        /\ ((ArgYmax - ArgYmin) % ArgRows = 0) =>
              float_eq(FarCorner.y, float_of_int(ArgYmin))
        /\ WithinRounding(FarCorner.x, ArgXmax, Abs(ArgXmax - ArgXmin) + Abs(ArgXmax))
        /\ WithinRounding(FarCorner.y, ArgYmin, Abs(ArgYmax - ArgYmin) + Abs(ArgYmin))

\* C5 witness: x from -7 to 0 over 25 columns; the far corner comes back
\* next to xmax = 0 and not on it.
C5_Witness ==
    /\ IsReconstruct
    /\ ArgXmin = -7 /\ ArgXmax = 0 /\ ArgCols = 25 /\ ArgRows > 0
    /\ ret.kind = "return"
    /\ float_eq(NearCorner.x, float_of_int(-7))
    /\ ~float_eq(FarCorner.x, float_of_int(0))
    /\ WithinRounding(FarCorner.x, 0, 7)

\* C6: with rows = 0 or cols = 0 reconstruct ends in the DegenerateGrid
\* error (ZeroDivisionError) for every bbox and returns no geometry.
C6_DegenerateGrid ==
    (IsReconstruct /\ (ArgRows = 0 \/ ArgCols = 0)) =>
        (ret.kind = "raise" /\ ret.exc = "ZeroDivisionError")

\* C6 witness: a shape with no rows and 25 columns is refused.
C6_Witness ==
    /\ IsReconstruct
    /\ ArgRows = 0 /\ ArgCols = 25
    /\ ret = Raise("ZeroDivisionError", "division by zero")

(***************************************************************************)
(* Claims about extent aggregation.                                        *)
(***************************************************************************)
IsAggregate ==
    call \in { "get_spatial_extent", "get_temporal_extent", "collection_extent" }

HasBBox(item) == item.bbox.t = "list"

HasDatetime(item) == item.datetime.t = "int"

SetMin(S) == CHOOSE m \in S : \A x \in S : m <= x

SetMax(S) == CHOOSE m \in S : \A x \in S : x <= m

\* the union of the bboxes the items carry
UnionBBox(items) ==
    LET B == { items[k].bbox.l : k \in { j \in DOMAIN items : HasBBox(items[j]) } } IN
    PyList(<<SetMin({ b[1] : b \in B }), SetMin({ b[2] : b \in B }),
             SetMax({ b[3] : b \in B }), SetMax({ b[4] : b \in B })>>)

\* the interval from the earliest to the latest datetime the items carry
SpanInterval(items) ==
    LET T == { items[k].datetime.i : k \in { j \in DOMAIN items : HasDatetime(items[j]) } } IN
    PyList(<<PyInt(SetMin(T)), PyInt(SetMax(T))>>)

\* C7: for a non-empty sequence in which every item has a bbox and a
\* datetime, aggregate returns the bbox (min xmin, min ymin, max xmax,
\* max ymax) and the interval (earliest datetime, latest datetime).
C7_AggregateUnion ==
    (IsAggregate /\ args # <<>>
        /\ \A k \in DOMAIN args : HasBBox(args[k]) /\ HasDatetime(args[k])) =>
        /\ call = "get_spatial_extent" => ret = Return(UnionBBox(args))
        /\ call = "get_temporal_extent" => ret = Return(SpanInterval(args))
        /\ call = "collection_extent" =>
              ret = Return([t |-> "Extent", spatial |-> UnionBBox(args),
                            temporal |-> SpanInterval(args)])

\* C7 witness: bboxes (0,0,10,10) and (5,5,20,20) at times 1 < 2 give the
\* bbox (0,0,20,20) and the interval (1, 2).
C7_Witness ==
    /\ call = "collection_extent"
    /\ args = << [bbox |-> PyList(<<0, 0, 10, 10>>), datetime |-> PyInt(1)],
                 [bbox |-> PyList(<<5, 5, 20, 20>>), datetime |-> PyInt(2)] >>
    /\ ret = Return([t |-> "Extent", spatial |-> PyList(<<0, 0, 20, 20>>),
                     temporal |-> PyList(<<PyInt(1), PyInt(2)>>)])

\* the permutations of the indices 1..n
IndexPermutations(n) == Permutations(1..n)

Permuted(items, p) == [k \in DOMAIN items |-> items[p[k]]]

\* C8: aggregate returns the same spatial bbox and the same temporal
\* interval (or the same failure) for every permutation of the item sequence.
C8_OrderIndependent ==
    /\ call = "get_spatial_extent" =>
          \A p \in IndexPermutations(Len(args)) :
              get_spatial_extent(Permuted(args, p)) = ret
    /\ call = "get_temporal_extent" =>
          \A p \in IndexPermutations(Len(args)) :
              get_temporal_extent(Permuted(args, p)) = ret

\* C8 witness: three items, the first with the largest xmin, aggregated to
\* the bbox whose xmin comes from the second and whose ymin from the third.
C8_Witness ==
    /\ call = "get_spatial_extent"
    /\ Len(args) = 3
    /\ args[1] = [bbox |-> PyList(<<5, 5, 20, 20>>), datetime |-> PyInt(2)]
    /\ args[2] = [bbox |-> PyList(<<-3, 7, 1, 8>>), datetime |-> PyInt(1)]
    /\ args[3] = [bbox |-> PyList(<<0, 0, 10, 10>>), datetime |-> PyInt(2)]
    /\ ret = Return(PyList(<<-3, 0, 20, 20>>))

\* C9: an item without a bbox is left out of the spatial aggregate and an
\* item without a datetime is left out of the temporal aggregate: with at
\* least one item carrying the field the aggregate is the union over the
\* items that carry it, and with none it fails with EmptyExtentSet.
C9_MissingFieldSkipped ==
    /\ call = "get_spatial_extent" =>
          IF \E k \in DOMAIN args : HasBBox(args[k])
          THEN ret = Return(UnionBBox(args))
          ELSE ret.kind = "raise" /\ ret.exc = "ValueError"
    /\ call = "get_temporal_extent" =>
          IF \E k \in DOMAIN args : HasDatetime(args[k])
          THEN ret = Return(SpanInterval(args))
          ELSE ret.kind = "raise" /\ ret.exc = "ValueError"

\* C9 restricted to the spatial aggregate, which does skip items without a
\* bbox.
C9_SpatialSkipsMissing ==
    call = "get_spatial_extent" =>
        IF \E k \in DOMAIN args : HasBBox(args[k])
        THEN ret = Return(UnionBBox(args))
        ELSE ret = Raise("ValueError", MsgNoBbox)

\* C10: on an empty item sequence the spatial and the temporal aggregate
\* both fail with EmptyExtentSet (ValueError), and no command step returns
\* an extent for it.
C10_EmptySequence ==
    /\ (call = "get_spatial_extent" /\ args = <<>>) => ret = Raise("ValueError", MsgNoBbox)
    /\ (call = "get_temporal_extent" /\ args = <<>>) => ret = Raise("ValueError", MsgNoDatetime)
    /\ (call = "collection_extent" /\ args = <<>>) =>
          (ret.kind = "raise" /\ ret.exc = "ValueError")
    /\ (call = "to_zarr_extent" /\ args.items = <<>>) => ret.kind = "raise"

\* C10 witness: the temporal aggregate of no items raised.
C10_Witness ==
    /\ call = "get_temporal_extent"
    /\ args = <<>>
    /\ ret = Raise("ValueError", MsgNoDatetime)

(***************************************************************************)
(* Claims about band descriptors.                                          *)
(***************************************************************************)
\* the data_type the call gave
RetDataType ==
    IF call = "to_raster_datatype" THEN ret.val ELSE ret.val.data_type

\* C11: wherever a band descriptor is built from an array dtype, the
\* data_type is returned and never raised: the band type of the same name
\* for the eleven integer and float dtypes, and 'other' for every other
\* dtype.
C11_DataTypeTotal ==
    call \in { "to_raster_datatype", "raster_band_from_dataarray", "zarr_raster_band" } =>
        /\ ret.kind = "return"
        /\ RetDataType = IF args.dtype.name \in RasterDtypeNames
                         THEN args.dtype.name
                         ELSE DataTypeOther

\* C11 restricted to to_raster_datatype and the descriptor built with it.
C11_ToRasterDatatype ==
    call \in { "to_raster_datatype", "raster_band_from_dataarray" } =>
        /\ ret.kind = "return"
        /\ RetDataType = IF args.dtype.name \in RasterDtypeNames
                         THEN args.dtype.name
                         ELSE DataTypeOther

\* a value is present under the key: the key is there and is not None
Present(mapping, key) == key \in DOMAIN mapping /\ mapping[key] # PyNone

\* the value the fallback chain encoding -> attribute -> absent gives
Fallback(da, enckey, attrkeys) ==
    IF Present(da.encoding, enckey) THEN da.encoding[enckey]
    ELSE IF \E k \in DOMAIN attrkeys : Present(da.attrs, attrkeys[k])
    THEN LET first == CHOOSE j \in DOMAIN attrkeys :
                         /\ Present(da.attrs, attrkeys[j])
                         /\ \A i \in 1..(j - 1) : ~Present(da.attrs, attrkeys[i])
         IN  da.attrs[attrkeys[first]]
    ELSE PyNone

\* C12: each of nodata, scale and offset is the encoding-level value when
\* one is present, otherwise the attribute-level value when one is present,
\* otherwise absent.
C12_FallbackChain ==
    call = "raster_band_from_dataarray" =>
        /\ ret.kind = "return"
        /\ ret.val.nodata = Fallback(args, "_FillValue", <<"_FillValue", "nodata">>)
        /\ ret.val.scale = Fallback(args, "scale_factor", <<"scale_factor">>)
        /\ ret.val.offset = Fallback(args, "add_offset", <<"add_offset">>)

\* C12 for values that are not 0: the chain holds when no value in it is 0.
C12_FallbackChainNonZero ==
    (call = "raster_band_from_dataarray"
        /\ (\A k \in DOMAIN args.encoding : args.encoding[k] # PyInt(0))
        /\ (\A j \in DOMAIN args.attrs : args.attrs[j] # PyInt(0))) =>
        /\ ret.kind = "return"
        /\ ret.val.nodata = Fallback(args, "_FillValue", <<"_FillValue", "nodata">>)
        /\ ret.val.scale = Fallback(args, "scale_factor", <<"scale_factor">>)
        /\ ret.val.offset = Fallback(args, "add_offset", <<"add_offset">>)

\* the descriptor field is 0 when the encoding-level value is 0, and when
\* there is no encoding-level value and the attribute-level value is 0
ZeroKept(da, enckey, attrkey, field) ==
    /\ (enckey \in DOMAIN da.encoding /\ da.encoding[enckey] = PyInt(0)) =>
          field = PyInt(0)
    /\ (~Present(da.encoding, enckey)
            /\ attrkey \in DOMAIN da.attrs /\ da.attrs[attrkey] = PyInt(0)) =>
          field = PyInt(0)

\* C13: an explicit 0 is a present value: an encoding-level nodata, scale or
\* offset of 0 gives 0 in the descriptor, and an attribute-level 0 with no
\* encoding-level value gives 0.
C13_ZeroIsPresent ==
    call = "raster_band_from_dataarray" =>
        /\ ret.kind = "return"
        /\ ZeroKept(args, "_FillValue", "_FillValue", ret.val.nodata)
        /\ ZeroKept(args, "scale_factor", "scale_factor", ret.val.scale)
        /\ ZeroKept(args, "add_offset", "add_offset", ret.val.offset)

(***************************************************************************)
(* Claims about cube dimensions and variables.                             *)
(***************************************************************************)
IsSynchronize == call \in { "zarr_cube", "eopf_cube", "dc_cube" }

\* the cube descriptors the call produced: one per asset in to_eopf
CubesOf ==
    IF call = "eopf_cube" THEN { ret.val[m] : m \in DOMAIN ret.val } ELSE { ret.val }

\* [min, max] of the coordinate values, as floats
CoordRange(values) ==
    LET S == { values[k] : k \in DOMAIN values }
    IN  <<float_of_int(SetMin(S)), float_of_int(SetMax(S))>>

\* C14: every cube descriptor produced, in every pipeline variant, gives the
\* axes 'x' and 'y' the extent [min, max] of the axis's coordinates and the
\* resolved CRS as reference_system.
C14_SpatialDimensions ==
    (IsSynchronize /\ ret.kind = "return") =>
        \A cube \in CubesOf : \A axis \in { "x", "y" } :
            /\ axis \in DOMAIN cube.dimensions
            /\ cube.dimensions[axis].extent = CoordRange(args.dataset.coords[axis])
            /\ "reference_system" \in DOMAIN cube.dimensions[axis]
            /\ cube.dimensions[axis].reference_system = args.crs

\* C14 without the reference system: the spatial extents are [min, max] in
\* every variant.
C14_SpatialExtents ==
    (IsSynchronize /\ ret.kind = "return") =>
        \A cube \in CubesOf : \A axis \in { "x", "y" } :
            /\ axis \in DOMAIN cube.dimensions
            /\ cube.dimensions[axis].extent = CoordRange(args.dataset.coords[axis])

\* C14 for dc_item.dimensions alone, which does carry the reference system.
C14_DcReferenceSystem ==
    (call = "dc_cube" /\ ret.kind = "return") =>
        \A axis \in { "x", "y" } :
            ret.val.dimensions[axis].reference_system = args.crs

\* the instants of the time axis: of the dataset's coordinates in dc_cube, of
\* the items' datetimes in the asset-level variants
TimeInstants ==
    IF call = "dc_cube"
    THEN { args.dataset.coords["time"][k] : k \in DOMAIN args.dataset.coords["time"] }
    ELSE { args.items[k].datetime.i : k \in DOMAIN args.items }

\* the instant as ISO-8601 with the UTC suffix: 2020-01-01T00:00:0<i>Z
IsoZ(second) == PyStr(IsoDateTimePrefix \o NatDigits(second) \o <<"Z">>)

\* C15: every cube descriptor produced, in every pipeline variant, gives the
\* time dimension the extent [earliest, latest], each an ISO-8601 string
\* with the 'Z' suffix, for aware UTC and for naive datetimes.
C15_TemporalIsoZ ==
    (IsSynchronize /\ ret.kind = "return") =>
        \A cube \in CubesOf :
            cube.dimensions["time"].extent =
                <<IsoZ(SetMin(TimeInstants)), IsoZ(SetMax(TimeInstants))>>

\* C15 where it holds: to_zarr of stac_zarr on aware datetimes and to_eopf
\* on naive datetimes.
C15_TemporalIsoZMatching ==
    (call \in { "zarr_cube", "eopf_cube" } /\ ret.kind = "return"
        /\ args.measurements # <<>>
        /\ \A k \in DOMAIN args.items :
              args.items[k].datetime.aware = (call = "zarr_cube")) =>
        \A cube \in CubesOf :
            cube.dimensions["time"].extent =
                <<IsoZ(SetMin(TimeInstants)), IsoZ(SetMax(TimeInstants))>>

\* the dimension names the declared variables list
DeclaredDims ==
    IF args.measurements = <<>> THEN {}
    ELSE IF call = "eopf_cube"
    THEN { DataDims(args.dataset)[k] : k \in DOMAIN DataDims(args.dataset) }
    ELSE { "time", "y", "x" }

\* C16: in every cube descriptor produced, every dimension name a variable
\* lists is the key of a declared dimension; and when a declared variable
\* lists a dimension the dataset does not have, no descriptor is produced:
\* the run fails.
C16_NoDanglingDimension ==
    IsSynchronize =>
        /\ ret.kind = "return" =>
              \A cube \in CubesOf : \A v \in DOMAIN cube.variables :
                  \A k \in DOMAIN cube.variables[v].dimensions :
                      cube.variables[v].dimensions[k] \in DOMAIN cube.dimensions
        /\ (\E d \in DeclaredDims : d \notin DOMAIN args.dataset.coords) =>
              ret.kind = "raise"

\* C16 witness: the dataset has lost 'time' while the measurements still
\* list it, and to_zarr fails.
C16_Witness ==
    /\ call = "zarr_cube"
    /\ DOMAIN args.dataset.coords = { "y", "x" }
    /\ args.measurements = <<"red", "nir">>
    /\ ret.kind = "raise"
    /\ ret.exc = "ValueError"

DifferentCrs(items) ==
    \E i, j \in DOMAIN items :
        /\ extract_crs(items[i]).kind = "return"
        /\ extract_crs(items[j]).kind = "return"
        /\ CrsIdOf(extract_crs(items[i]).val) # CrsIdOf(extract_crs(items[j]).val)

\* C18: the output carries exactly one CRS, and composing fails
\* (CrsMismatch) when the items of the input collection carry different
\* CRSs.
C18_CrsMismatch ==
    (call = "to_zarr_crs" /\ DifferentCrs(args)) => ret.kind = "raise"

\* C18, the part that holds: what to_zarr produces carries one CRS, that of
\* the first item, in the dimensions and in the projection alike.
C18_OneCrs ==
    (call = "to_zarr_crs" /\ ret.kind = "return") =>
        /\ CrsIdOf(ret.val.crs) = CrsIdOf(ret.val.proj)
        /\ CrsIdOf(ret.val.crs) = CrsIdOf(extract_crs(args[1]).val)

\* C19: all-or-nothing output: when a step of a run of a conversion command
\* has failed, nothing of that run is on disk, neither store nor asset file
\* nor catalog.
C19_AllOrNothing ==
    (proc.cmd \in { "dc_to_zarr", "to_stac" } /\ proc.pc = "failed") => disk = {}

\* C19, the failures that do leave nothing: those of the CRS and of the
\* extent of to_zarr, which come before the store is written.
C19_EarlyFailures ==
    (proc.cmd = "dc_to_zarr" /\ proc.pc = "failed"
       /\ proc.error \in { to_zarr_extent(proc.input.items, proc.input.properties) })
        => disk = {}

\* C19, a run of to_stac that leaves files behind: two items and one otsu
\* mask, the files of the first item copied, the second pass failed.
C19_StacLeftover ==
    ~ (/\ proc.cmd = "to_stac"
       /\ proc.pc = "failed"
       /\ proc.error.exc = "IndexError"
       /\ Len(proc.input.item_urls) = 2
       /\ Len(proc.input.otsu) = 1
       /\ File("otsu", proc.input.item_urls[1].id) \in disk
       /\ CatalogFile \notin disk)

(***************************************************************************)
(* Claims about the orientation of the reconstructed grid.                 *)
(***************************************************************************)
\* x < 0 on floats: a negative sign on a non-zero significand
FloatNegative(x) == x.m # <<>> /\ x.sign = 1

\* x > 0 on floats
FloatPositive(x) == x.m # <<>> /\ x.sign = 0

IntervalOrdered(interval) ==
    /\ interval[1].t = "int"
    /\ interval[2].t = "int"
    /\ interval[1].i <= interval[2].i

\* xmin <= xmax and ymin <= ymax on a bbox
BBoxOrdered(bbox) == bbox[1] <= bbox[3] /\ bbox[2] <= bbox[4]

\* C21: every Extent that aggregate returns satisfies xmin <= xmax,
\* ymin <= ymax and start <= end, for every non-empty item sequence it
\* accepts.
C21_ExtentOrdered ==
    (call = "eopf_extent" /\ args # <<>> /\ ret.kind = "return") =>
        /\ BBoxOrdered(ret.val.spatial.l)
        /\ IntervalOrdered(ret.val.temporal.l)

\* C21, the spatial half alone: xmin <= xmax and ymin <= ymax.
C21_SpatialOrdered ==
    (call = "eopf_extent" /\ args # <<>> /\ ret.kind = "return") =>
        BBoxOrdered(ret.val.spatial.l)

\* C21 on items that are themselves ordered and dated: when every bbox
\* present has xmin <= xmax and ymin <= ymax and every item has a datetime,
\* the returned Extent is ordered.
C21_OrderedItems ==
    (/\ call = "eopf_extent"
     /\ ret.kind = "return"
     /\ \A k \in DOMAIN args :
            /\ args[k].datetime # PyNone
            /\ args[k].bbox # PyNone => BBoxOrdered(args[k].bbox.l))
        => /\ BBoxOrdered(ret.val.spatial.l)
           /\ IntervalOrdered(ret.val.temporal.l)

(***************************************************************************)
(* Claims about CfParameter.                                               *)
(***************************************************************************)
\* the properties of the parameter p agree with the unit assigned last and
\* with the name given last
CfAgrees(p) ==
    LET properties == p.heap[1] IN
    /\ p.last # Absent =>
          /\ ("unit" \in DOMAIN properties) <=> (p.last # PyNone)
          /\ cf_unit(properties) = p.last
    /\ dict_get(properties, "name") = p.name

\* C22: after any sequence of unit assignments the properties hold 'unit'
\* exactly when the most recent assignment was non-None, with that value;
\* after None the getter returns None; the name is unchanged by unit
\* assignments; to_dict returns a copy: a step that assigns neither unit nor
\* name, a change of the returned dict included, leaves the properties as
\* they were.
C22_UnitAssignments ==
    [][proc'.cmd = "CfParameter" =>
          /\ CfAgrees(proc')
          /\ (proc.cmd = "CfParameter" /\ proc'.last = proc.last /\ proc'.name = proc.name)
                => proc'.heap[1] = proc.heap[1]]_vars

\* C22 witness: a unit was set, to_dict was called, the returned dict has
\* lost its name, then None was assigned: the returned dict still has the
\* unit, the parameter has its name and no unit.
C22_Witness ==
    /\ proc.cmd = "CfParameter"
    /\ proc.last = PyNone
    /\ proc.ref = 2
    /\ DOMAIN proc.heap[2] = { "unit" }
    /\ DOMAIN proc.heap[1] = { "name" }
    /\ cf_unit(proc.heap[1]) = PyNone
    /\ cf_name(proc.heap[1]) = Return(proc.name)

(***************************************************************************)
(* Claims about the measurement loop of to_zarr.                           *)
(***************************************************************************)
\* the first k asset keys
KeysDone(keys, k) == { keys[i] : i \in 1..k }

\* bands, raster_bands and cube_variables hold one entry for each of the
\* first k asset keys, the lists in the order of the keys
OnePerKey(bands, raster_bands, cube_variables, keys, k) ==
    /\ Len(bands) = k
    /\ Len(raster_bands) = k
    /\ Cardinality(DOMAIN cube_variables) = k
    /\ DOMAIN cube_variables = KeysDone(keys, k)
    /\ \A i \in 1..k :
           /\ bands[i].name = keys[i]
           /\ cube_variables[keys[i]].dimensions = <<"time", "y", "x">>

\* C23: in the measurement loop of to_zarr, after k measurements bands,
\* raster_bands and cube_variables each hold exactly k entries, one per
\* processed asset key and in key order, and exactly those k arrays exist
\* in the store; at loop end every asset key has exactly one band, one
\* raster band and one cube variable with dimensions ['time', 'y', 'x'].
C23_LoopInvariant ==
    /\ (proc.cmd = "to_zarr" /\ proc.pc = "loop") =>
          /\ OnePerKey(proc.bands, proc.raster_bands, proc.cube_variables,
                       proc.input.measurements, proc.k - 1)
          /\ { f \in disk : f.kind = "array" }
                 = { File("array", key) : key \in KeysDone(proc.input.measurements, proc.k - 1) }
    /\ (proc.cmd = "to_zarr" /\ proc.pc \in { "save", "done" }) =>
          /\ OnePerKey(proc.descriptor.bands, proc.descriptor.raster_bands,
                       proc.descriptor.variables, proc.input.measurements,
                       Len(proc.input.measurements))
          /\ \A key \in KeysDone(proc.input.measurements, Len(proc.input.measurements)) :
                 Cardinality({ i \in DOMAIN proc.descriptor.bands :
                                 proc.descriptor.bands[i].name = key }) = 1

\* C23 witness: the first of two measurements has been processed: one band,
\* one raster band, one cube variable and the one array of "red".
C23_Witness ==
    /\ proc.cmd = "to_zarr"
    /\ proc.pc = "loop"
    /\ proc.input.measurements = <<"red", "nir">>
    /\ proc.k = 2
    /\ Len(proc.bands) = 1
    /\ Len(proc.raster_bands) = 1
    /\ DOMAIN proc.cube_variables = { "red" }
    /\ File("array", "red") \in disk
    /\ File("array", "nir") \notin disk

====
